---------------------------- MODULE Spec2Model ----------------------------
(***************************************************************************)
(* Orient Medical Centre data-migration scripts: the column mapper and     *)
(* record normalizer of the Access extractors, the synthetic generators,   *)
(* and the batched PostgreSQL loaders.                                     *)
(*                                                                         *)
(* Python strings are modelled as sequences of one-character strings, so   *)
(* that lower(), upper(), strip(), "in" and f-string formatting are        *)
(* computed and not assumed.                                               *)
(***************************************************************************)
EXTENDS Integers, Sequences, FiniteSets, TLC

(***************************************************************************)
(* Python str operations                                                   *)
(***************************************************************************)
UpperChars == <<"A", "B", "C", "D", "E", "F", "G", "H", "I", "J", "K", "L", "M", "N", "O", "P", "Q", "R", "S", "T", "U", "V", "W", "X", "Y", "Z">>
LowerChars == <<"a", "b", "c", "d", "e", "f", "g", "h", "i", "j", "k", "l", "m", "n", "o", "p", "q", "r", "s", "t", "u", "v", "w", "x", "y", "z">>
DigitChars == <<"0", "1", "2", "3", "4", "5", "6", "7", "8", "9">>

\* str.lower()
Lower(s) ==
    LET LowerChar(c) ==
            IF \E i \in 1..26 : UpperChars[i] = c
            THEN LowerChars[CHOOSE i \in 1..26 : UpperChars[i] = c]
            ELSE c
    IN
        [i \in 1..Len(s) |-> LowerChar(s[i])]

\* variant that leaves the letter case as it is
Upper_Identity(s) == s

\* str.upper()
Upper(s) ==
    LET UpperChar(c) ==
            IF \E i \in 1..26 : LowerChars[i] = c
            THEN UpperChars[CHOOSE i \in 1..26 : LowerChars[i] = c]
            ELSE c
    IN
        [i \in 1..Len(s) |-> UpperChar(s[i])]

\* str.strip(): leading and trailing whitespace removed
Strip(s) ==
    LET keep == {i \in 1..Len(s) : s[i] # " "}
    IN  IF keep = {} THEN <<>>
        ELSE LET lo == CHOOSE i \in keep : \A j \in keep : i <= j
                 hi == CHOOSE i \in keep : \A j \in keep : j <= i
             IN  SubSeq(s, lo, hi)

\* "sub in s" on Python strings
Contains(s, sub) ==
    \E i \in 1..(Len(s) - Len(sub) + 1) : SubSeq(s, i, i + Len(sub) - 1) = sub

\* any(term in s for term in terms)
AnyIn(terms, s) == \E k \in 1..Len(terms) : Contains(s, terms[k])

\* decimal digits of a natural number, most significant first
RECURSIVE Digits(_)
Digits(n) ==
    IF n < 10 THEN <<DigitChars[n + 1]>>
    ELSE Digits(n \div 10) \o <<DigitChars[(n % 10) + 1]>>

\* format spec  {n:0<w>d} : zero padded to at least w digits
RECURSIVE ZeroPad(_, _)
ZeroPad(s, w) == IF Len(s) >= w THEN s ELSE ZeroPad(<<"0">> \o s, w)

PadNum(n, w) == ZeroPad(Digits(n), w)

IsDigits(s) == \A i \in 1..Len(s) : \E k \in 1..10 : DigitChars[k] = s[i]
\* value of a sequence of decimal digit characters
RECURSIVE NumVal(_)
NumVal(s) ==
    LET
        \* value of one decimal digit character
        DigitVal(c) == (CHOOSE i \in 1..10 : DigitChars[i] = c) - 1
    IN
        IF s = <<>> THEN 0
        ELSE 10 * NumVal(SubSeq(s, 1, Len(s) - 1)) + DigitVal(s[Len(s)])

(***************************************************************************)
(* pandas values.  A DataFrame is [columns, rows]: the column names in     *)
(* order and, per row, one cell per column.  A cell is a Python string, or *)
(* one of the two missing markers a read can produce: float NaN or None.   *)
(* The DataFrame has the default RangeIndex, so row k has index k - 1.     *)
(***************************************************************************)
NaN  == <<"<NaN>">>
None == <<"<None>">>

\* str(value)
Str(v) == IF v = NaN THEN <<"n", "a", "n">> ELSE IF v = None THEN <<"N", "o", "n", "e">> ELSE v

\* pd.notna(value)
NotNa(v) == v # NaN /\ v # None

\* position of a column label in df.columns (0 when absent)
ColIndex(cols, key) ==
    IF \E i \in 1..Len(cols) : cols[i] = key
    THEN CHOOSE i \in 1..Len(cols) : cols[i] = key
    ELSE 0

\* row[key]
Cell(cols, row, key) == row[ColIndex(cols, key)]

\* row.get(key, default)
RowGet(cols, row, key, default) ==
    IF ColIndex(cols, key) = 0 THEN default ELSE row[ColIndex(cols, key)]

\* dict.get(field, '') on the column mapping
MapGet(m, field) == IF field \in DOMAIN m THEN m[field] ELSE <<>>

\* variant of the assignment that keeps the column a field already has
MapPut_KeepFirst(m, field, col) ==
    [f \in (DOMAIN m) \cup {field} |-> IF f \in DOMAIN m THEN m[f] ELSE col]

\* mapping[field] = col
MapPut(m, field, col) ==
    [f \in (DOMAIN m) \cup {field} |-> IF f = field THEN col ELSE m[f]]

EmptyMapping == [f \in {} |-> <<>>]

(***************************************************************************)
(* pd.to_datetime on one value and strftime('%Y-%m-%d').  The parser is    *)
(* modelled on the two layouts the value pools use, YYYY-MM-DD and         *)
(* YYYY/MM/DD; every other text is unparseable.                            *)
(***************************************************************************)
IsLeap(y) == (y % 4 = 0 /\ y % 100 # 0) \/ y % 400 = 0

IsDateText(s) ==
    LET DaysInMonth(y, m) ==
            IF m = 2 THEN (IF IsLeap(y) THEN 29 ELSE 28)
            ELSE IF m \in {4, 6, 9, 11} THEN 30 ELSE 31
    IN
        /\ Len(s) = 10
        /\ s[5] \in {"-", "/"}
        /\ s[8] = s[5]
        /\ IsDigits(SubSeq(s, 1, 4) \o SubSeq(s, 6, 7) \o SubSeq(s, 9, 10))
        /\ LET y == NumVal(SubSeq(s, 1, 4))
               m == NumVal(SubSeq(s, 6, 7))
               d == NumVal(SubSeq(s, 9, 10))
           IN  m \in 1..12 /\ d \in 1..DaysInMonth(y, m)

\* pd.to_datetime(v): a Timestamp, NaT (NaN or empty text), None, or an exception
ToDatetime(v) ==
    LET
        \* Timestamp.strftime('%Y-%m-%d')
        Strftime(s) == SubSeq(s, 1, 4) \o <<"-">> \o SubSeq(s, 6, 7) \o <<"-">> \o SubSeq(s, 9, 10)
    IN
        IF v = None THEN [kind |-> "none", iso |-> <<>>]
        ELSE IF v = NaN \/ Strip(v) = <<>> THEN [kind |-> "nat", iso |-> <<>>]
        ELSE IF IsDateText(Strip(v)) THEN [kind |-> "ts", iso |-> Strftime(Strip(v))]
        ELSE [kind |-> "raise", iso |-> <<>>]

\* pd.to_datetime(v, errors='coerce'): unparseable text becomes NaT
ToDatetimeCoerce(v) ==
    IF ToDatetime(v).kind = "raise" THEN [kind |-> "nat", iso |-> <<>>]
    ELSE ToDatetime(v)

\* try: d = pd.to_datetime(v, errors='coerce'); if pd.notna(d): x = d.strftime(..)
\* except: pass
DateOrDefaultCoerce(v, default) ==
    IF ToDatetimeCoerce(v).kind = "ts" THEN ToDatetimeCoerce(v).iso ELSE default

\* variant without the fallback: the source text stays when it does not parse
DateOrDefaultTry_KeepText(v, default) ==
    IF ToDatetime(v).kind = "ts" THEN ToDatetime(v).iso ELSE Str(v)

\* try: x = pd.to_datetime(v).strftime(..)  except: pass
\* (NaT.strftime and None.strftime raise as well, and are swallowed)
DateOrDefaultTry(v, default) ==
    IF ToDatetime(v).kind = "ts" THEN ToDatetime(v).iso ELSE default

SentinelDob     == <<"1", "9", "8", "0", "-", "0", "1", "-", "0", "1">>
SentinelCreated == <<"2", "0", "2", "4", "-", "0", "1", "-", "0", "1">>
DefaultAddress  == <<"B", "e", "n", "i", "n", " ", "C", "i", "t", "y", ",", " ", "E", "d", "o", " ", "S", "t", "a", "t", "e">>
DefaultPhone    == <<"0", "8", "0", "0", "0", "0", "0", "0", "0", "0", "0">>
NullTexts       == {<<"n", "a", "n">>, <<"N", "o", "n", "e">>, <<"N", "U", "L", "L">>}

(***************************************************************************)
(* real-access-extractor.py : transform_real_access_data                   *)
(***************************************************************************)
\* the keyword list of each field, as the if / elif chain tests them
RaeTerms ==
    [ first_name    |-> << <<"f", "i", "r", "s", "t">>, <<"f", "n", "a", "m", "e">>, <<"g", "i", "v", "e", "n">> >>,
      last_name     |-> << <<"l", "a", "s", "t">>, <<"l", "n", "a", "m", "e">>, <<"s", "u", "r", "n", "a", "m", "e">>, <<"f", "a", "m", "i", "l", "y">> >>,
      phone         |-> << <<"p", "h", "o", "n", "e">>, <<"m", "o", "b", "i", "l", "e">>, <<"t", "e", "l">>, <<"c", "o", "n", "t", "a", "c", "t">>, <<"c", "e", "l", "l">> >>,
      gender        |-> << <<"g", "e", "n", "d", "e", "r">>, <<"s", "e", "x">> >>,
      date_of_birth |-> << <<"b", "i", "r", "t", "h">>, <<"d", "o", "b">>, <<"a", "g", "e">> >>,
      address       |-> << <<"a", "d", "d", "r", "e", "s", "s">>, <<"l", "o", "c", "a", "t", "i", "o", "n">>, <<"r", "e", "s", "i", "d", "e", "n", "c", "e">> >>,
      patient_id    |-> << <<"i", "d">>, <<"p", "a", "t", "i", "e", "n", "t", "i", "d">>, <<"c", "l", "i", "e", "n", "t", "i", "d">>, <<"n", "u", "m", "b", "e", "r">> >>,
      created_at    |-> << <<"d", "a", "t", "e">>, <<"c", "r", "e", "a", "t", "e", "d">>, <<"r", "e", "g">>, <<"e", "n", "t", "r", "y">> >>,
      pathway       |-> << <<"p", "a", "t", "h", "w", "a", "y">>, <<"r", "e", "f", "e", "r", "r", "a", "l">>, <<"s", "o", "u", "r", "c", "e">> >> ]

\* variant of the chain that tests the patient_id keywords first
RaeFieldOf_IdFirst(col_lower) ==
    IF AnyIn(RaeTerms.patient_id, col_lower) THEN "patient_id"
    ELSE IF AnyIn(RaeTerms.first_name, col_lower) THEN "first_name"
    ELSE IF AnyIn(RaeTerms.last_name, col_lower) THEN "last_name"
    ELSE IF AnyIn(RaeTerms.phone, col_lower) THEN "phone"
    ELSE IF AnyIn(RaeTerms.gender, col_lower) THEN "gender"
    ELSE IF AnyIn(RaeTerms.date_of_birth, col_lower) THEN "date_of_birth"
    ELSE IF AnyIn(RaeTerms.address, col_lower) THEN "address"
    ELSE IF AnyIn(RaeTerms.created_at, col_lower) THEN "created_at"
    ELSE IF AnyIn(RaeTerms.pathway, col_lower) THEN "pathway"
    ELSE ""

\* the if / elif chain on one lower-cased column name: the field it is
\* assigned to, or "" when no branch matches
RaeFieldOf(col_lower) ==
    IF AnyIn(RaeTerms.first_name, col_lower) THEN "first_name"
    ELSE IF AnyIn(RaeTerms.last_name, col_lower) THEN "last_name"
    ELSE IF AnyIn(RaeTerms.phone, col_lower) THEN "phone"
    ELSE IF AnyIn(RaeTerms.gender, col_lower) THEN "gender"
    ELSE IF AnyIn(RaeTerms.date_of_birth, col_lower) THEN "date_of_birth"
    ELSE IF AnyIn(RaeTerms.address, col_lower) THEN "address"
    ELSE IF AnyIn(RaeTerms.patient_id, col_lower) THEN "patient_id"
    ELSE IF AnyIn(RaeTerms.created_at, col_lower) THEN "created_at"
    ELSE IF AnyIn(RaeTerms.pathway, col_lower) THEN "pathway"
    ELSE ""

\* for col in df.columns: ... column_mapping[field] = col
RECURSIVE RaeMapFrom(_, _, _)
RaeMapFrom(cols, i, m) ==
    IF i > Len(cols) THEN m
    ELSE LET f == RaeFieldOf(Lower(cols[i]))
         IN  RaeMapFrom(cols, i + 1, IF f = "" THEN m ELSE MapPut(m, f, cols[i]))

RaeColumnMapping(cols) == RaeMapFrom(cols, 1, EmptyMapping)

\* str(row.get(column_mapping.get(field, ''), default)).strip()
RaeText(m, cols, row, field, default) ==
    Strip(Str(RowGet(cols, row, MapGet(m, field), default)))

RaeName(m, cols, row, field) == Upper(RaeText(m, cols, row, field, <<>>))

\* if not first_name and not last_name: continue
RaeSkip(m, cols, row) ==
    RaeName(m, cols, row, "first_name") = <<>> /\ RaeName(m, cols, row, "last_name") = <<>>

RaeSynthId(index) == <<"O", "M", "C", "-", "R", "E", "A", "L", "-">> \o PadNum(index + 1, 5)

\* variant of the gender terms with the full word only
RaeGenderTest_FemaleOnly == << <<"f", "e", "m", "a", "l", "e">> >>

RaeGenderTest == << <<"f">>, <<"w", "o", "m", "a", "n">>, <<"f", "e", "m", "a", "l", "e">> >>

\* the patient dict built for one row that is not skipped (src_index is
\* bookkeeping: the DataFrame index of the row the dict was built from)
RaePatient(m, cols, row, index) ==
    LET
        \* if name in ['nan', 'None', 'NULL']: name = ""   (after .upper())
        RaeCleanName(name) == IF name \in NullTexts THEN <<>> ELSE name
        RaePatientId ==
            LET pid == RaeText(m, cols, row, "patient_id", RaeSynthId(index))
            IN  IF pid \in NullTexts THEN RaeSynthId(index) ELSE pid
        RaePhone ==
            LET ph == RaeText(m, cols, row, "phone", DefaultPhone)
            IN  IF ph \in NullTexts THEN DefaultPhone ELSE ph
        RaeGender ==
            LET gender_val == Strip(Lower(Str(RowGet(cols, row, MapGet(m, "gender"), <<"m", "a", "l", "e">>))))
            IN  IF AnyIn(RaeGenderTest, gender_val) THEN <<"f", "e", "m", "a", "l", "e">> ELSE <<"m", "a", "l", "e">>
        RaeDob ==
            IF "date_of_birth" \in DOMAIN m
            THEN DateOrDefaultCoerce(Cell(cols, row, m["date_of_birth"]), SentinelDob)
            ELSE SentinelDob
        RaeAddress ==
            LET a == RaeText(m, cols, row, "address", DefaultAddress)
            IN  IF a \in NullTexts THEN DefaultAddress ELSE a
        RaePathway ==
            LET pathway_val == Strip(Lower(Str(RowGet(cols, row, MapGet(m, "pathway"), <<"s", "e", "l", "f">>))))
            IN  IF Contains(pathway_val, <<"r", "e", "f", "e", "r", "r", "a", "l">>) THEN <<"r", "e", "f", "e", "r", "r", "a", "l">> ELSE <<"s", "e", "l", "f">>
        RaeCreated ==
            IF "created_at" \in DOMAIN m
            THEN DateOrDefaultCoerce(Cell(cols, row, m["created_at"]), SentinelCreated)
            ELSE SentinelCreated
    IN
        LET first == RaeCleanName(RaeName(m, cols, row, "first_name"))
            last  == RaeCleanName(RaeName(m, cols, row, "last_name"))
        IN  [ patient_id    |-> RaePatientId,
              first_name    |-> first,
              last_name     |-> last,
              phone         |-> RaePhone,
              date_of_birth |-> RaeDob,
              gender        |-> RaeGender,
              address       |-> RaeAddress,
              pathway       |-> RaePathway,
              tenant_id     |-> 1,
              branch_id     |-> 1,
              created_at    |-> RaeCreated,
              updated_at    |-> RaeCreated,
              full_name     |-> Strip(first \o <<" ">> \o last),
              src_index     |-> index ]

\* for index, row in df.iterrows(): ... transformed_patients.append(patient)
RECURSIVE RaeRows(_, _, _, _)
RaeRows(m, df, k, acc) ==
    IF k > Len(df.rows) THEN acc
    ELSE RaeRows(m, df, k + 1,
                 IF RaeSkip(m, df.columns, df.rows[k]) THEN acc
                 ELSE Append(acc, RaePatient(m, df.columns, df.rows[k], k - 1)))

transform_real_access_data(df) == RaeRows(RaeColumnMapping(df.columns), df, 1, <<>>)

(***************************************************************************)
(* extract-real-access-data.py : transform_real_data                       *)
(***************************************************************************)
\* the keyword list of each field, as the if / elif chain tests them
ErdTerms ==
    [ first_name    |-> << <<"f", "i", "r", "s", "t">>, <<"f", "n", "a", "m", "e">>, <<"f", "i", "r", "s", "t", "n", "a", "m", "e">> >>,
      last_name     |-> << <<"l", "a", "s", "t">>, <<"l", "n", "a", "m", "e">>, <<"l", "a", "s", "t", "n", "a", "m", "e">>, <<"s", "u", "r", "n", "a", "m", "e">> >>,
      phone         |-> << <<"p", "h", "o", "n", "e">>, <<"m", "o", "b", "i", "l", "e">>, <<"t", "e", "l">>, <<"c", "o", "n", "t", "a", "c", "t">> >>,
      gender        |-> << <<"g", "e", "n", "d", "e", "r">>, <<"s", "e", "x">> >>,
      date_of_birth |-> << <<"b", "i", "r", "t", "h">>, <<"d", "o", "b">>, <<"a", "g", "e">> >>,
      address       |-> << <<"a", "d", "d", "r", "e", "s", "s">>, <<"l", "o", "c", "a", "t", "i", "o", "n">> >>,
      patient_id    |-> << <<"i", "d">>, <<"p", "a", "t", "i", "e", "n", "t", "i", "d">>, <<"c", "l", "i", "e", "n", "t", "i", "d">> >>,
      created_at    |-> << <<"d", "a", "t", "e">>, <<"c", "r", "e", "a", "t", "e", "d">>, <<"r", "e", "g">> >> ]

ErdFieldOf(col_lower) ==
    IF AnyIn(ErdTerms.first_name, col_lower) THEN "first_name"
    ELSE IF AnyIn(ErdTerms.last_name, col_lower) THEN "last_name"
    ELSE IF AnyIn(ErdTerms.phone, col_lower) THEN "phone"
    ELSE IF AnyIn(ErdTerms.gender, col_lower) THEN "gender"
    ELSE IF AnyIn(ErdTerms.date_of_birth, col_lower) THEN "date_of_birth"
    ELSE IF AnyIn(ErdTerms.address, col_lower) THEN "address"
    ELSE IF AnyIn(ErdTerms.patient_id, col_lower) THEN "patient_id"
    ELSE IF AnyIn(ErdTerms.created_at, col_lower) THEN "created_at"
    ELSE ""

RECURSIVE ErdMapFrom(_, _, _)
ErdMapFrom(cols, i, m) ==
    IF i > Len(cols) THEN m
    ELSE LET f == ErdFieldOf(Lower(cols[i]))
         IN  ErdMapFrom(cols, i + 1, IF f = "" THEN m ELSE MapPut(m, f, cols[i]))

ErdColumnMapping(cols) == ErdMapFrom(cols, 1, EmptyMapping)

\* x = ""; if field in column_map: x = str(row[column_map[field]]).strip().upper()
ErdName(m, cols, row, field) ==
    IF field \in DOMAIN m THEN Upper(Strip(Str(Cell(cols, row, m[field])))) ELSE <<>>

ErdSkip(m, cols, row) ==
    ErdName(m, cols, row, "first_name") = <<>> /\ ErdName(m, cols, row, "last_name") = <<>>

\* x = default; if field in column_map: v = str(row[..]).strip(); if v and v != 'nan': x = v
ErdText(m, cols, row, field, default) ==
    IF field \in DOMAIN m
    THEN LET v == Strip(Str(Cell(cols, row, m[field])))
         IN  IF v # <<>> /\ v # <<"n", "a", "n">> THEN v ELSE default
    ELSE default

ErdPatient(m, cols, row, index) ==
    LET
        \* if name == 'nan' or name == 'None': name = ""   (after .upper())
        ErdCleanName(name) == IF name = <<"n", "a", "n">> \/ name = <<"N", "o", "n", "e">> THEN <<>> ELSE name
        ErdSynthId == <<"O", "M", "C", "-", "R", "E", "A", "L", "-">> \o PadNum(index + 1, 5)
        ErdGender ==
            IF "gender" \in DOMAIN m
            THEN LET g == Strip(Lower(Str(Cell(cols, row, m["gender"]))))
                 IN  IF Contains(g, <<"f">>) \/ Contains(g, <<"w", "o", "m", "a", "n">>) THEN <<"f", "e", "m", "a", "l", "e">> ELSE <<"m", "a", "l", "e">>
            ELSE <<"m", "a", "l", "e">>
        ErdDate(m0, cols0, row0, field, default) ==
            IF field \in DOMAIN m0
            THEN DateOrDefaultTry(Cell(cols0, row0, m0[field]), default)
            ELSE default
    IN
        LET first == ErdCleanName(ErdName(m, cols, row, "first_name"))
            last  == ErdCleanName(ErdName(m, cols, row, "last_name"))
        IN  [ patient_id    |-> ErdText(m, cols, row, "patient_id", ErdSynthId),
              first_name    |-> first,
              last_name     |-> last,
              phone         |-> ErdText(m, cols, row, "phone", DefaultPhone),
              date_of_birth |-> ErdDate(m, cols, row, "date_of_birth", SentinelDob),
              gender        |-> ErdGender,
              address       |-> ErdText(m, cols, row, "address", DefaultAddress),
              pathway       |-> <<"s", "e", "l", "f">>,
              tenant_id     |-> 1,
              branch_id     |-> 1,
              created_at    |-> ErdDate(m, cols, row, "created_at", SentinelCreated),
              updated_at    |-> ErdDate(m, cols, row, "created_at", SentinelCreated),
              full_name     |-> Strip(first \o <<" ">> \o last),
              src_index     |-> index ]

RECURSIVE ErdRows(_, _, _, _)
ErdRows(m, df, k, acc) ==
    IF k > Len(df.rows) THEN acc
    ELSE ErdRows(m, df, k + 1,
                 IF ErdSkip(m, df.columns, df.rows[k]) THEN acc
                 ELSE Append(acc, ErdPatient(m, df.columns, df.rows[k], k - 1)))

transform_real_data(df) == ErdRows(ErdColumnMapping(df.columns), df, 1, <<>>)

(***************************************************************************)
(* access-database-import.py : transform_access_to_postgres                *)
(***************************************************************************)
AdiFieldOf(col, col_lower) ==
    IF Contains(col_lower, <<"f", "i", "r", "s", "t">>) /\ Contains(col_lower, <<"n", "a", "m", "e">>) THEN "first_name"
    ELSE IF Contains(col_lower, <<"l", "a", "s", "t">>) /\ Contains(col_lower, <<"n", "a", "m", "e">>) THEN "last_name"
    ELSE IF Contains(col_lower, <<"s", "u", "r", "n", "a", "m", "e">>) THEN "last_name"
    ELSE IF Contains(col_lower, <<"n", "a", "m", "e">>) /\ ~Contains(col_lower, <<"f", "i", "r", "s", "t">>)
            /\ ~Contains(col_lower, <<"l", "a", "s", "t">>) THEN "full_name"
    ELSE IF Contains(col_lower, <<"p", "h", "o", "n", "e">>) \/ Contains(col_lower, <<"m", "o", "b", "i", "l", "e">>)
            \/ Contains(col_lower, <<"c", "e", "l", "l">>) THEN "phone"
    ELSE IF Contains(col_lower, <<"g", "e", "n", "d", "e", "r">>) \/ Contains(col_lower, <<"s", "e", "x">>) THEN "gender"
    ELSE IF Contains(col_lower, <<"b", "i", "r", "t", "h">>) \/ Contains(col_lower, <<"d", "o", "b">>) THEN "date_of_birth"
    ELSE IF Contains(col_lower, <<"a", "d", "d", "r", "e", "s", "s">>) \/ Contains(col_lower, <<"l", "o", "c", "a", "t", "i", "o", "n">>) THEN "address"
    ELSE IF Contains(col_lower, <<"i", "d">>) /\ Len(col) < 10 THEN "patient_id"
    ELSE IF Contains(col_lower, <<"d", "a", "t", "e">>)
            /\ (Contains(col_lower, <<"r", "e", "g">>) \/ Contains(col_lower, <<"c", "r", "e", "a", "t", "e">>)) THEN "created_at"
    ELSE ""

RECURSIVE AdiMapFrom(_, _, _)
AdiMapFrom(cols, i, m) ==
    IF i > Len(cols) THEN m
    ELSE LET f == AdiFieldOf(cols[i], Lower(cols[i]))
         IN  AdiMapFrom(cols, i + 1, IF f = "" THEN m ELSE MapPut(m, f, cols[i]))

AdiColumnMapping(cols) == AdiMapFrom(cols, 1, EmptyMapping)

\* str.split(): the maximal runs of non-blank characters
RECURSIVE Split(_)
Split(s) ==
    LET t == Strip(s)
    IN  IF t = <<>> THEN <<>>
        ELSE IF \E i \in 1..Len(t) : t[i] = " "
             THEN LET sp == CHOOSE i \in 1..Len(t) :
                                t[i] = " " /\ \A j \in 1..(i - 1) : t[j] # " "
                  IN  <<SubSeq(t, 1, sp - 1)>> \o Split(SubSeq(t, sp + 1, Len(t)))
             ELSE <<t>>

\* ' '.join(parts)
RECURSIVE Join(_)
Join(parts) ==
    IF parts = <<>> THEN <<>>
    ELSE IF Len(parts) = 1 THEN parts[1]
    ELSE parts[1] \o <<" ">> \o Join(Tail(parts))

\* first_name, last_name after the optional split of the full-name column
AdiNames(m, cols, row) ==
    LET AdiRawName(m0, cols0, row0, field) ==
            IF field \in DOMAIN m0 THEN Upper(Strip(Str(Cell(cols0, row0, m0[field])))) ELSE <<>>
    IN
        LET first == AdiRawName(m, cols, row, "first_name")
            last  == AdiRawName(m, cols, row, "last_name")
            full  == AdiRawName(m, cols, row, "full_name")
        IN  IF first = <<>> /\ last = <<>> /\ "full_name" \in DOMAIN m
               /\ full # <<>> /\ full # <<"n", "a", "n">>
            THEN IF Len(Split(full)) >= 2
                 THEN [first |-> Split(full)[1], last |-> Join(Tail(Split(full)))]
                 ELSE [first |-> Split(full)[1], last |-> <<>>]
            ELSE [first |-> first, last |-> last]

AdiSkip(m, cols, row) ==
    AdiNames(m, cols, row).first = <<>> /\ AdiNames(m, cols, row).last = <<>>

AdiSynthId(index) == <<"O", "M", "C", "-", "I", "M", "P", "O", "R", "T", "-">> \o PadNum(index + 1, 5)

AdiPatient(m, cols, row, index) ==
    LET AdiPatientId ==
            LET pid == IF "patient_id" \in DOMAIN m
                       THEN Strip(Str(Cell(cols, row, m["patient_id"]))) ELSE <<>>
            IN  IF pid = <<>> \/ pid = <<"n", "a", "n">> THEN AdiSynthId(index) ELSE pid
        AdiPhone ==
            IF "phone" \in DOMAIN m
            THEN LET ph == Strip(Str(Cell(cols, row, m["phone"])))
                 IN  IF ph = <<"n", "a", "n">> THEN <<"0", "8", "0">> \o Digits(30000000 + (index % 70000000)) ELSE ph
            ELSE <<>>
        AdiGender ==
            IF "gender" \in DOMAIN m
            THEN LET gender_val == Strip(Lower(Str(Cell(cols, row, m["gender"]))))
                 IN  IF Contains(gender_val, <<"f">>) \/ Contains(gender_val, <<"w", "o", "m", "a", "n">>)
                     THEN <<"f", "e", "m", "a", "l", "e">> ELSE <<"m", "a", "l", "e">>
            ELSE <<"m", "a", "l", "e">>
        AdiDate(m0, cols0, row0, field, default) ==
            IF field \in DOMAIN m0 /\ NotNa(Cell(cols0, row0, m0[field]))
            THEN DateOrDefaultTry(Cell(cols0, row0, m0[field]), default)
            ELSE default
        AdiAddress ==
            IF "address" \in DOMAIN m
            THEN LET addr == Strip(Str(Cell(cols, row, m["address"])))
                 IN  IF addr # <<>> /\ addr # <<"n", "a", "n">> THEN addr ELSE DefaultAddress
            ELSE DefaultAddress
    IN
        LET first == AdiNames(m, cols, row).first
            last  == AdiNames(m, cols, row).last
        IN  [ patient_id    |-> AdiPatientId,
              first_name    |-> first,
              last_name     |-> last,
              phone         |-> AdiPhone,
              date_of_birth |-> AdiDate(m, cols, row, "date_of_birth", SentinelDob),
              gender        |-> AdiGender,
              address       |-> AdiAddress,
              pathway       |-> <<"s", "e", "l", "f">>,
              tenant_id     |-> 1,
              branch_id     |-> 1,
              created_at    |-> AdiDate(m, cols, row, "created_at", SentinelCreated),
              updated_at    |-> AdiDate(m, cols, row, "created_at", SentinelCreated),
              full_name     |-> Strip(first \o <<" ">> \o last),
              src_index     |-> index ]

RECURSIVE AdiRows(_, _, _, _)
AdiRows(m, df, k, acc) ==
    IF k > Len(df.rows) THEN acc
    ELSE AdiRows(m, df, k + 1,
                 IF AdiSkip(m, df.columns, df.rows[k]) THEN acc
                 ELSE Append(acc, AdiPatient(m, df.columns, df.rows[k], k - 1)))

transform_access_to_postgres(df) == AdiRows(AdiColumnMapping(df.columns), df, 1, <<>>)

(***************************************************************************)
(* migrate-access-data.py : AccessMigrationTool.transform_patient_data and *)
(* the dropna of migrate_patients                                          *)
(***************************************************************************)

\* df.rename(columns=field_mapping)
MadRename(cols) ==
    LET
        \* field_mapping: exact column names
        MadRenameOne(col) ==
            IF col \in {<<"P", "a", "t", "i", "e", "n", "t", "I", "D">>, <<"P", "a", "t", "i", "e", "n", "t", "_", "I", "D">>, <<"I", "D">>} THEN <<"p", "a", "t", "i", "e", "n", "t", "_", "i", "d">>
            ELSE IF col \in {<<"F", "i", "r", "s", "t", "N", "a", "m", "e">>, <<"F", "i", "r", "s", "t", "_", "N", "a", "m", "e">>} THEN <<"f", "i", "r", "s", "t", "_", "n", "a", "m", "e">>
            ELSE IF col \in {<<"L", "a", "s", "t", "N", "a", "m", "e">>, <<"L", "a", "s", "t", "_", "N", "a", "m", "e">>} THEN <<"l", "a", "s", "t", "_", "n", "a", "m", "e">>
            ELSE IF col \in {<<"D", "O", "B">>, <<"D", "a", "t", "e", "O", "f", "B", "i", "r", "t", "h">>, <<"D", "a", "t", "e", "_", "o", "f", "_", "B", "i", "r", "t", "h">>} THEN <<"d", "a", "t", "e", "_", "o", "f", "_", "b", "i", "r", "t", "h">>
            ELSE IF col \in {<<"S", "e", "x">>, <<"G", "e", "n", "d", "e", "r">>} THEN <<"g", "e", "n", "d", "e", "r">>
            ELSE IF col \in {<<"P", "h", "o", "n", "e">>, <<"P", "h", "o", "n", "e", "N", "u", "m", "b", "e", "r">>, <<"P", "h", "o", "n", "e", "_", "N", "u", "m", "b", "e", "r">>} THEN <<"p", "h", "o", "n", "e">>
            ELSE IF col \in {<<"E", "m", "a", "i", "l">>, <<"E", "m", "a", "i", "l", "A", "d", "d", "r", "e", "s", "s">>} THEN <<"e", "m", "a", "i", "l">>
            ELSE IF col = <<"A", "d", "d", "r", "e", "s", "s">> THEN <<"a", "d", "d", "r", "e", "s", "s">>
            ELSE col
    IN
        [i \in 1..Len(cols) |-> MadRenameOne(cols[i])]

\* str.replace(r'[^\d+]', '', regex=True)
RECURSIVE MadDigitsOnly(_)
MadDigitsOnly(s) ==
    IF s = <<>> THEN <<>>
    ELSE IF IsDigits(<<Head(s)>>) \/ Head(s) = "+"
         THEN <<Head(s)>> \o MadDigitsOnly(Tail(s))
         ELSE MadDigitsOnly(Tail(s))

MadSynthId(index) == <<"O", "M", "D", "-", "M", "I", "G", "R", "-">> \o PadNum(index, 5)

\* value of column `name` of the transformed frame in one row; row.get(name)
\* gives None for a column that does not exist
MadCol(cols, row, name) == RowGet(MadRename(cols), row, name, None)

MadHas(cols, name) == ColIndex(MadRename(cols), name) # 0

MadRecord(cols, row, index) ==
    LET
        \* lambda x: f"+234{x[-10:]}" if len(x) >= 10 else x
        MadPhone(v) ==
            LET x == MadDigitsOnly(Str(v))
            IN  IF Len(x) >= 10 THEN <<"+", "2", "3", "4">> \o SubSeq(x, Len(x) - 9, Len(x)) ELSE x
        \* df['gender'].str.lower().map({'m': 'male', 'f': 'female', 'male': .., 'female': ..})
        MadGender(v) ==
            IF ~NotNa(v) THEN NaN
            ELSE IF Lower(v) \in {<<"m">>, <<"m", "a", "l", "e">>} THEN <<"m", "a", "l", "e">>
            ELSE IF Lower(v) \in {<<"f">>, <<"f", "e", "m", "a", "l", "e">>} THEN <<"f", "e", "m", "a", "l", "e">>
            ELSE NaN
        \* pd.to_datetime(df['date_of_birth'], errors='coerce')
        MadDob(v) == IF ToDatetimeCoerce(v).kind = "ts" THEN ToDatetimeCoerce(v).iso ELSE NaN
        \* lambda x: f"OMD-{str(x).zfill(5)}" if pd.notnull(x) else None
        MadPatientId(v) == IF NotNa(v) THEN <<"O", "M", "D", "-">> \o ZeroPad(Str(v), 5) ELSE None
        MadPathway == <<"w", "a", "l", "k", "_", "i", "n">>
    IN
        [ patient_id    |-> IF MadHas(cols, <<"p", "a", "t", "i", "e", "n", "t", "_", "i", "d">>)
                            THEN MadPatientId(MadCol(cols, row, <<"p", "a", "t", "i", "e", "n", "t", "_", "i", "d">>))
                            ELSE MadSynthId(index),
          first_name    |-> MadCol(cols, row, <<"f", "i", "r", "s", "t", "_", "n", "a", "m", "e">>),
          last_name     |-> MadCol(cols, row, <<"l", "a", "s", "t", "_", "n", "a", "m", "e">>),
          date_of_birth |-> IF MadHas(cols, <<"d", "a", "t", "e", "_", "o", "f", "_", "b", "i", "r", "t", "h">>)
                            THEN MadDob(MadCol(cols, row, <<"d", "a", "t", "e", "_", "o", "f", "_", "b", "i", "r", "t", "h">>)) ELSE None,
          gender        |-> IF MadHas(cols, <<"g", "e", "n", "d", "e", "r">>)
                            THEN MadGender(MadCol(cols, row, <<"g", "e", "n", "d", "e", "r">>)) ELSE None,
          phone         |-> IF MadHas(cols, <<"p", "h", "o", "n", "e">>)
                            THEN MadPhone(MadCol(cols, row, <<"p", "h", "o", "n", "e">>)) ELSE None,
          email         |-> MadCol(cols, row, <<"e", "m", "a", "i", "l">>),
          address       |-> MadCol(cols, row, <<"a", "d", "d", "r", "e", "s", "s">>),
          pathway       |-> MadPathway,
          tenant_id     |-> 1,
          branch_id     |-> 1,
          src_index     |-> index ]

transform_patient_data(df) ==
    [k \in 1..Len(df.rows) |-> MadRecord(df.columns, df.rows[k], k - 1)]

\* df_transformed.dropna(subset=['first_name', 'last_name']) raises KeyError
\* when one of the two columns does not exist
MadDropnaRaises(df) ==
    ~MadHas(df.columns, <<"f", "i", "r", "s", "t", "_", "n", "a", "m", "e">>) \/ ~MadHas(df.columns, <<"l", "a", "s", "t", "_", "n", "a", "m", "e">>)

RECURSIVE MadDropna(_)
MadDropna(recs) ==
    IF recs = <<>> THEN <<>>
    ELSE IF NotNa(Head(recs).first_name) /\ NotNa(Head(recs).last_name)
         THEN <<Head(recs)>> \o MadDropna(Tail(recs))
         ELSE MadDropna(Tail(recs))

\* the rows migrate_patients hands to its INSERT loop
MadClean(df) == MadDropna(transform_patient_data(df))

(***************************************************************************)
(* The destination store.  patients.patient_id carries a unique index (the *)
(* ON CONFLICT (patient_id) clauses of the loaders name it); patients.id   *)
(* is the key the store assigns.  Dates are day numbers counted from       *)
(* 2020-01-01, the base_date of the generators.                            *)
(***************************************************************************)
Today == 2000

EmptyStore == [patients |-> <<>>, transactions |-> <<>>, patient_tests |-> <<>>, next_id |-> 1]

HasPatientId(tbl, pid) == \E i \in 1..Len(tbl) : tbl[i].patient_id = pid

Min(a, b) == IF a < b THEN a ELSE b

PatientRow(p, id) ==
    [ id         |-> id,
      patient_id |-> p.patient_id,
      first_name |-> p.first_name,
      last_name  |-> p.last_name,
      gender     |-> p.gender,
      pathway    |-> p.pathway,
      created_at |-> p.created_at,
      full_name  |-> p.first_name \o <<" ">> \o p.last_name ]

\* variant with no unique index on patient_id: the row is always stored
InsertIgnore_Always(w, p) ==
    [w EXCEPT !.patients = Append(@, PatientRow(p, w.next_id)), !.next_id = @ + 1]

\* INSERT INTO patients ... ON CONFLICT (patient_id) DO NOTHING, one row
InsertIgnore(w, p) ==
    IF HasPatientId(w.patients, p.patient_id)
    THEN [w EXCEPT !.next_id = @ + 1]
    ELSE [w EXCEPT !.patients = Append(@, PatientRow(p, w.next_id)), !.next_id = @ + 1]

InsertPlain(w, p) ==
    [w EXCEPT !.patients = Append(@, PatientRow(p, w.next_id)), !.next_id = @ + 1]

\* cursor.executemany(INSERT ... ON CONFLICT DO NOTHING, values)
RECURSIVE ExecuteManyIgnore(_, _)
ExecuteManyIgnore(w, batch) ==
    IF batch = <<>> THEN w ELSE ExecuteManyIgnore(InsertIgnore(w, Head(batch)), Tail(batch))

\* cursor.executemany(INSERT ..., values) without conflict clause
RECURSIVE ExecuteManyPlain(_, _)
ExecuteManyPlain(w, batch) ==
    LET
        \* INSERT INTO patients ... with no conflict clause, one row: a duplicate
        \* patient_id violates the unique index and the statement raises
        InsertPlainRaises(w0, p) == HasPatientId(w0.patients, p.patient_id)
    IN
        IF batch = <<>> THEN [w |-> w, raised |-> FALSE]
        ELSE IF InsertPlainRaises(w, Head(batch))
             THEN [w |-> [w EXCEPT !.next_id = @ + 1], raised |-> TRUE]
             ELSE ExecuteManyPlain(InsertPlain(w, Head(batch)), Tail(batch))

\* patient_id LIKE 'OMC-2025-%'
IsRealId(pid) ==
    LET
        \* s.startswith(prefix); also SQL  s LIKE 'prefix%'
        StartsWith(s, prefix) ==
            Len(s) >= Len(prefix) /\ SubSeq(s, 1, Len(prefix)) = prefix
        RealPrefix == <<"O", "M", "C", "-", "2", "0", "2", "5", "-">>
    IN
        StartsWith(pid, RealPrefix)

\* variant: DELETE FROM patients with no WHERE clause
DeleteSamplePatients_All(w) == [w EXCEPT !.patients = <<>>]

\* DELETE FROM patients WHERE patient_id NOT LIKE 'OMC-2025-%'
DeleteSamplePatients(w) ==
    [w EXCEPT !.patients = SelectSeq(@, LAMBDA r : IsRealId(r.patient_id))]

\* DELETE FROM <table> WHERE patient_id IN
\*     (SELECT patient_id FROM patients WHERE patient_id NOT LIKE 'OMC-2025-%')
DeleteRowsOfSamplePatients(rows, pats) ==
    LET
        \* transactions.patient_id and patient_tests.patient_id hold patients.id, the
        \* key the store assigned; patients.patient_id is the textual identifier
        RefIsPatientId(ref, pid) == FALSE
    IN
        SelectSeq(rows, LAMBDA t :
            ~\E i \in 1..Len(pats) :
                ~IsRealId(pats[i].patient_id) /\ RefIsPatientId(t.patient_id, pats[i].patient_id))

(***************************************************************************)
(* The synthetic generators.  The outcome of the random module is an       *)
(* argument: rnd[k] holds the draws made for record i = k - 1, the days    *)
(* offset of created_at and the last name.  The record counts (9,315,      *)
(* 9,000 and 5,000 in the scripts), the sequence modulus (1000) and the    *)
(* index of the guaranteed OMOKARO record are scaled down together.        *)
(***************************************************************************)
GenCount     == 3
SeqModulus   == 2
OmokaroIndex == 1
BulkSeqOffset == 1000

\* (datetime(2020, 1, 1) + timedelta(days=d)).year
RECURSIVE YearFrom(_, _)
YearFrom(y, d) ==
    LET DaysInYear == IF IsLeap(y) THEN 366 ELSE 365
    IN
        IF d < DaysInYear THEN y ELSE YearFrom(y + 1, d - DaysInYear)

YearOfDay(d) == YearFrom(2020, d)

LastNameDraws == {<<"O", "M", "O">>, <<"O", "M", "O", "K", "A", "R", "O">>}

RandomDraws ==
    LET
        \* random.randint(0, 1800): the draws explored
        DayDraws == {0, 1800}
    IN
        [1..GenCount -> [days : DayDraws, last : LastNameDraws]]
HistoricalDraws ==
    LET
        \* random.randint(0, 365*5) of generate_historical_patients: the draws explored
        DaysAgoDraws == {0, 365 * 5}
    IN
        [1..GenCount -> [days : DaysAgoDraws, last : LastNameDraws]]

\* f"OMC-{year}-{sequence:04d}"
OmcId(year, sequence) == <<"O", "M", "C", "-">> \o Digits(year) \o <<"-">> \o PadNum(sequence, 4)

\* variant without the guaranteed record: every last name is the one drawn
GenPatient_AllDrawn(pid, special, last, created) ==
    [ patient_id |-> pid, first_name |-> <<"J", "O", "S", "H", "U", "A">>, last_name |-> last,
      gender |-> <<"m", "a", "l", "e">>, pathway |-> <<"s", "e", "l", "f">>, created_at |-> created ]

GenPatient(pid, special, last, created) ==
    [ patient_id |-> pid,
      first_name |-> IF special THEN <<"F", "E", "L", "I", "X">> ELSE <<"J", "O", "S", "H", "U", "A">>,
      last_name  |-> IF special THEN <<"O", "M", "O", "K", "A", "R", "O">> ELSE last,
      gender     |-> <<"m", "a", "l", "e">>,
      pathway    |-> <<"s", "e", "l", "f">>,
      created_at |-> created ]

\* comprehensive-data-migration.py
create_comprehensive_dataset(rnd) ==
    [k \in 1..GenCount |->
        LET i == k - 1
            created_at == 0 + rnd[k].days
            sequence == (i % SeqModulus) + 1
        IN  GenPatient(OmcId(YearOfDay(created_at), sequence), i = OmokaroIndex,
                       rnd[k].last, created_at)]

\* efficient-bulk-import.py
generate_bulk_insert_sql(rnd) ==
    [k \in 1..GenCount |->
        LET i == k - 1
            created_at == 0 + rnd[k].days
            sequence == BulkSeqOffset + i
        IN  GenPatient(OmcId(YearOfDay(created_at), sequence), i = OmokaroIndex,
                       rnd[k].last, created_at)]

\* complete-data-migration.py: base_date = datetime.now() - timedelta(days=365*5)
generate_historical_patients(rnd) ==
    [k \in 1..GenCount |->
        LET i == k - 1
            created_at == (Today - 365 * 5) + rnd[k].days
        IN  GenPatient(OmcId(YearOfDay(created_at), i + 1), i = OmokaroIndex,
                       rnd[k].last, created_at)]


(***************************************************************************)
(* comprehensive-data-migration.py : generate_comprehensive_transactions.  *)
(* `draw` holds the random choices of one call: the active patients        *)
(* (positions in the list, in sample order) and, for each, the number of   *)
(* visits and the days between registration and visit.  Every visit takes  *)
(* one test.  The target of 23,000 transactions and the 8 visits are       *)
(* scaled down; patient_index is bookkeeping: the position in the list of  *)
(* the patient a row was generated for.                                    *)
(***************************************************************************)
TxnTarget == 2
MaxVisits == 2

\* random.sample(patients, int(len(patients) * 0.6)), random.randint(1, 8),
\* random.randint(0, 365 * 3): the draws explored
TransactionDraws(ps) ==
    LET n == (6 * Len(ps)) \div 10
    IN  { [active |-> a, visits |-> v, days |-> g] :
            a \in { s \in [1..n -> 1..Len(ps)] : \A i, j \in 1..n : s[i] = s[j] => i = j },
            v \in [1..n -> 1..MaxVisits],
            g \in [1..n -> {0, 365 * 3}] }

\* the visits of the active patients k, k+1, ... in the order of the loops
RECURSIVE VisitsFrom(_, _, _)
VisitsFrom(ps, draw, k) ==
    IF k > Len(draw.active) THEN <<>>
    ELSE [v \in 1..draw.visits[k] |->
             [patient_index |-> draw.active[k],
              visit_date |-> ps[draw.active[k]].created_at + draw.days[k]]]
         \o VisitsFrom(ps, draw, k + 1)

\* both loops break once len(transactions) >= 23000
generate_comprehensive_transactions(ps, draw) ==
    LET all  == VisitsFrom(ps, draw, 1)
        kept == SubSeq(all, 1, IF Len(all) < TxnTarget THEN Len(all) ELSE TxnTarget)
    IN  [ transactions |->
            [t \in 1..Len(kept) |->
                [id |-> t, patient_id |-> ps[kept[t].patient_index].patient_id,
                 total_amount |-> 1500, transaction_date |-> kept[t].visit_date,
                 patient_index |-> kept[t].patient_index]],
          patient_tests |->
            [t \in 1..Len(kept) |->
                [transaction_id |-> t, patient_id |-> ps[kept[t].patient_index].patient_id,
                 test_name |-> "MALARIA PARASITE", test_date |-> kept[t].visit_date,
                 patient_index |-> kept[t].patient_index]] ]
(***************************************************************************)
(* The batched loaders.  A run works on w, the connection's view of the    *)
(* store; conn.commit() makes w the store; an exception leaves the store   *)
(* as of the last commit (the key sequence aside, which is not rolled      *)
(* back).  The result is [store, ok, total, submitted]: the store after    *)
(* the run, whether the function returned, its total_inserted, and the     *)
(* batches handed to the store in order.  The batch size (500 and 1000 in  *)
(* the scripts) is scaled down.                                            *)
(***************************************************************************)
BatchSize == 2

\* len(range(0, len(xs), batch_size))
NumBatches(xs) == (Len(xs) + BatchSize - 1) \div BatchSize

\* the statement of the batch numbered `fault` fails in the store (a lost
\* connection, a rejected value); 0 stands for a run without such a failure
FaultAfter(fault) == IF fault = 0 THEN 0 ELSE fault - 1

\* the exception leaves the loop: nothing more is submitted or committed
Raised(committed, w) ==
    [store |-> [committed EXCEPT !.next_id = w.next_id], ok |-> FALSE,
     total |-> 0, submitted |-> <<>>]

\* variant that hands the whole list to the store as one batch
IgnoreBatches_OneBatch(committed, w, xs, fault) ==
    IF xs = <<>> THEN [store |-> committed, ok |-> TRUE, total |-> 0, submitted |-> <<>>]
    ELSE IF fault = 1 THEN [Raised(committed, w) EXCEPT !.submitted = <<xs>>]
    ELSE [store |-> ExecuteManyIgnore(w, xs), ok |-> TRUE, total |-> Len(xs),
          submitted |-> <<xs>>]

\* variant with one commit after the loop instead of one per batch
RECURSIVE IgnoreBatches_SingleCommit(_, _, _, _)
IgnoreBatches_SingleCommit(committed, w, xs, fault) ==
    IF xs = <<>> THEN [store |-> w, ok |-> TRUE, total |-> 0, submitted |-> <<>>]
    ELSE LET n  == Min(BatchSize, Len(xs))
             batch == SubSeq(xs, 1, n)
         IN  IF fault = 1
             THEN [Raised(committed, w) EXCEPT !.submitted = <<batch>>]
             ELSE LET r == IgnoreBatches_SingleCommit(committed, ExecuteManyIgnore(w, batch),
                                                      SubSeq(xs, n + 1, Len(xs)), FaultAfter(fault))
                  IN  [r EXCEPT !.total = @ + n, !.submitted = <<batch>> \o @]

\* for i in range(0, len(xs), batch_size): batch = xs[i:i + batch_size];
\*     executemany(... ON CONFLICT DO NOTHING); total += len(batch); commit()
RECURSIVE IgnoreBatches(_, _, _, _)
IgnoreBatches(committed, w, xs, fault) ==
    IF xs = <<>> THEN [store |-> committed, ok |-> TRUE, total |-> 0, submitted |-> <<>>]
    ELSE LET n  == Min(BatchSize, Len(xs))
             batch == SubSeq(xs, 1, n)
         IN  IF fault = 1
             THEN [Raised(committed, w) EXCEPT !.submitted = <<batch>>]
             ELSE LET w2 == ExecuteManyIgnore(w, batch)
                      r  == IgnoreBatches(w2, w2, SubSeq(xs, n + 1, Len(xs)), FaultAfter(fault))
                  IN  [r EXCEPT !.total = @ + n, !.submitted = <<batch>> \o @]

\* the same loop with a plain INSERT
RECURSIVE PlainBatches(_, _, _, _)
PlainBatches(committed, w, xs, fault) ==
    IF xs = <<>> THEN [store |-> committed, ok |-> TRUE, total |-> 0, submitted |-> <<>>]
    ELSE LET n  == Min(BatchSize, Len(xs))
             batch == SubSeq(xs, 1, n)
             e  == ExecuteManyPlain(w, batch)
         IN  IF fault = 1 \/ e.raised
             THEN [Raised(committed, IF fault = 1 THEN w ELSE e.w) EXCEPT !.submitted = <<batch>>]
             ELSE LET r == PlainBatches(e.w, e.w, SubSeq(xs, n + 1, Len(xs)), FaultAfter(fault))
                  IN  [r EXCEPT !.total = @ + n, !.submitted = <<batch>> \o @]

\* variant whose clearing DELETE is committed before the batch loop
bulk_insert_postgres_ClearCommitted(store, xs, fault) ==
    LET cleared == [store EXCEPT !.patients =
                       SelectSeq(@, LAMBDA r : ~(r.created_at >= Today - 7))]
    IN  IgnoreBatches(cleared, cleared, xs, fault)

\* access-database-import.py
bulk_insert_postgres(store, xs, fault) ==
    LET
        \* DELETE FROM patients WHERE created_at >= CURRENT_DATE - INTERVAL '7 days'
        DeleteRecentPatients(w) ==
            [w EXCEPT !.patients = SelectSeq(@, LAMBDA r : ~(r.created_at >= Today - 7))]
    IN
        IgnoreBatches(store, DeleteRecentPatients(store), xs, fault)

\* comprehensive-data-migration.py
bulk_insert_patients(store, xs, fault) ==
    LET
        \* the clearing deletes before the batch loop
        ClearSampleData(w) ==
            [DeleteSamplePatients(w) EXCEPT
                !.patient_tests = DeleteRowsOfSamplePatients(w.patient_tests, w.patients),
                !.transactions  = DeleteRowsOfSamplePatients(w.transactions, w.patients)]
    IN
        IgnoreBatches(store, ClearSampleData(store), xs, fault)

\* complete-data-migration.py
bulk_insert_historical_patients(store, xs, fault) == PlainBatches(store, store, xs, fault)

\* efficient-bulk-import.py: chunks of one multi-row INSERT ... ON CONFLICT DO NOTHING
execute_bulk_insert(store, patient_values, fault) ==
    IgnoreBatches(store, DeleteSamplePatients(store), patient_values, fault)

(***************************************************************************)
(* comprehensive-data-migration.py : bulk_insert_transactions              *)
(***************************************************************************)
\* patient_id_map = {row[1]: row[0] for row in cursor.fetchall()}
PatientIdMap(pats) ==
    [pid \in {pats[i].patient_id : i \in 1..Len(pats)} |->
        (CHOOSE i \in 1..Len(pats) : pats[i].patient_id = pid
            /\ \A j \in 1..Len(pats) : pats[j].patient_id = pid => j <= i)]

PatientKey(pats, pid) == pats[PatientIdMap(pats)[pid]].id

\* variant with no membership test: an unresolved row is kept with reference 0
ResolvedValues_KeepAll(pats, batch) ==
    [i \in 1..Len(batch) |->
        [batch[i] EXCEPT !.patient_id =
            IF batch[i].patient_id \in DOMAIN PatientIdMap(pats)
            THEN PatientKey(pats, batch[i].patient_id) ELSE 0]]

\* values = [...] for the rows of a batch whose patient_id is in the map
RECURSIVE ResolvedValues(_, _)
ResolvedValues(pats, batch) ==
    IF batch = <<>> THEN <<>>
    ELSE IF Head(batch).patient_id \in DOMAIN PatientIdMap(pats)
         THEN <<[Head(batch) EXCEPT !.patient_id = PatientKey(pats, Head(batch).patient_id)]>>
                  \o ResolvedValues(pats, Tail(batch))
         ELSE ResolvedValues(pats, Tail(batch))

\* the batch loop over one list; `pats` is the patients table read once, before
\* the loop
RECURSIVE ResolvedInserted(_, _)
ResolvedInserted(pats, xs) ==
    IF xs = <<>> THEN <<>>
    ELSE LET n == Min(BatchSize, Len(xs))
         IN  ResolvedValues(pats, SubSeq(xs, 1, n))
                 \o ResolvedInserted(pats, SubSeq(xs, n + 1, Len(xs)))

\* variant with a conflict guard: a resolved row already stored is skipped
bulk_insert_transactions_Guarded(store, txs, tests) ==
    LET New(tbl, xs) ==
            SelectSeq(ResolvedInserted(store.patients, xs),
                      LAMBDA r : \A i \in 1..Len(tbl) : tbl[i] # r)
    IN  [ store |-> [store EXCEPT
                        !.transactions  = @ \o New(store.transactions, txs),
                        !.patient_tests = @ \o New(store.patient_tests, tests)],
          ok    |-> TRUE,
          total |-> Len(New(store.transactions, txs)),
          tests |-> Len(New(store.patient_tests, tests)),
          submitted |-> <<>> ]

bulk_insert_transactions(store, txs, tests) ==
    [ store |-> [store EXCEPT
                    !.transactions  = @ \o ResolvedInserted(store.patients, txs),
                    !.patient_tests = @ \o ResolvedInserted(store.patients, tests)],
      ok    |-> TRUE,
      total |-> Len(ResolvedInserted(store.patients, txs)),
      tests |-> Len(ResolvedInserted(store.patients, tests)),
      submitted |-> <<>> ]

(***************************************************************************)
(* The loaders that commit once.  `fault` = f > 0 stands for a run whose    *)
(* f-th INSERT raises in the store; the connection is then dropped with    *)
(* nothing committed.  `writes` lists the DELETE and INSERT statements sent.*)
(***************************************************************************)
\* DELETE FROM patient_tests; DELETE FROM transactions WHERE type = 'payment';
\* DELETE FROM patients
ClearAllData(w) ==
    [w EXCEPT !.patient_tests = <<>>,
              !.transactions = SelectSeq(@, LAMBDA t : ~("type" \in DOMAIN t /\ t.type = "payment")),
              !.patients = <<>>]

Statements(kind, n) == [i \in 1..n |-> kind]

\* real-access-extractor.py: one INSERT ... ON CONFLICT DO NOTHING per
\* record, one commit; returns SELECT COUNT(*) FROM patients
import_real_patient_data(store, xs, fault) ==
    IF fault > 0 /\ fault <= Len(xs)
    THEN [store |-> [store EXCEPT !.next_id =
                        ExecuteManyIgnore(ClearAllData(store), SubSeq(xs, 1, fault - 1)).next_id],
          ok |-> FALSE, total |-> 0,
          writes |-> Statements("DELETE", 3) \o Statements("INSERT", fault)]
    ELSE LET w == ExecuteManyIgnore(ClearAllData(store), xs)
         IN  [store |-> w, ok |-> TRUE, total |-> Len(w.patients),
              writes |-> Statements("DELETE", 3) \o Statements("INSERT", Len(xs))]

\* variant whose clearing DELETEs are committed before the INSERTs start
import_real_patients_ClearFirst(store, xs, fault) ==
    LET e == ExecuteManyPlain(ClearAllData(store), xs)
    IN  IF (fault > 0 /\ fault <= Len(xs)) \/ e.raised
        THEN [store |-> ClearAllData(store), ok |-> FALSE, total |-> 0,
              writes |-> Statements("DELETE", 3)]
        ELSE [store |-> e.w, ok |-> TRUE, total |-> Len(e.w.patients),
              writes |-> Statements("DELETE", 3) \o Statements("INSERT", Len(xs))]

\* extract-real-access-data.py: one plain INSERT per record, one commit.  The
\* run fails at the INSERT numbered `fault`, or before it at the first
\* INSERT that repeats a patient_id
import_real_patients(store, xs, fault) ==
    LET faulty == fault > 0 /\ fault <= Len(xs)
        e == ExecuteManyPlain(ClearAllData(store),
                              IF faulty THEN SubSeq(xs, 1, fault - 1) ELSE xs)
        sent == IF e.raised THEN Len(e.w.patients) + 1
                ELSE IF faulty THEN fault ELSE Len(xs)
    IN  IF faulty \/ e.raised
        THEN [store |-> [store EXCEPT !.next_id = e.w.next_id], ok |-> FALSE, total |-> 0,
              writes |-> Statements("DELETE", 3) \o Statements("INSERT", sent)]
        ELSE [store |-> e.w, ok |-> TRUE, total |-> Len(e.w.patients),
              writes |-> Statements("DELETE", 3) \o Statements("INSERT", sent)]

\* import-real-data.py: the records written into the script (14 there), all
\* with created_at 2025-06-07
real_patients ==
    << [patient_id |-> <<"O", "M", "C", "-", "2", "0", "2", "5", "-", "0", "0", "0", "1">>, first_name |-> <<"J", "O", "S", "H", "U", "A">>, last_name |-> <<"O", "M", "O">>,
        gender |-> <<"M", "A", "L", "E">>, pathway |-> <<"s", "e", "l", "f">>, created_at |-> 1984],
       [patient_id |-> <<"O", "M", "C", "-", "2", "0", "2", "5", "-", "0", "0", "0", "2">>, first_name |-> <<"E", "M", "E", "K", "A">>, last_name |-> <<"F", "A", "V", "O", "U", "R">>,
        gender |-> <<"M", "A", "L", "E">>, pathway |-> <<"s", "e", "l", "f">>, created_at |-> 1984] >>

\* import-real-data.py: DELETE FROM patients, one plain INSERT per record
\* (gender in lower case), one commit
import_access_patients(store, fault) ==
    LET xs == [i \in DOMAIN real_patients |->
                  [real_patients[i] EXCEPT !.gender = Lower(@)]]
        faulty == fault > 0 /\ fault <= Len(xs)
        e == ExecuteManyPlain([store EXCEPT !.patients = <<>>],
                              IF faulty THEN SubSeq(xs, 1, fault - 1) ELSE xs)
    IN  IF faulty \/ e.raised
        THEN [store |-> [store EXCEPT !.next_id = e.w.next_id], ok |-> FALSE, total |-> 0,
              writes |-> Statements("DELETE", 1)
                            \o Statements("INSERT", IF faulty THEN fault ELSE Len(xs))]
        ELSE [store |-> e.w, ok |-> TRUE, total |-> Len(xs),
              writes |-> Statements("DELETE", 1) \o Statements("INSERT", Len(xs))]

(***************************************************************************)
(* financial-transactions-import.py : import_financial_data.  `draw` holds *)
(* what one run reads and draws: the tests table (catalog), the active     *)
(* patients (positions in the patients table, in sample order), the visits *)
(* of each and the days between registration and visit.  Every visit takes *)
(* one test, the first of the catalog; with an empty catalog the scaled    *)
(* test_count is 0 and nothing is inserted.  With fewer than 500           *)
(* transactions the only commit that stores rows is the one after the loop.*)
(***************************************************************************)
\* random.sample(patients, int(len(patients) * 0.6)), randint(1, 5) visits
\* (1 or 2 here), randint(0, 900) days (the two ends here)
FinancialDraws(w) ==
    LET n == (6 * Len(w.patients)) \div 10
    IN  { [active |-> a, visits |-> v, days_after |-> g, catalog |-> c] :
            a \in { s \in [1..n -> 1..Len(w.patients)] :
                      \A i, j \in 1..n : s[i] = s[j] => i = j },
            v \in 1..2, g \in {0, 900},
            c \in { <<>>, <<[id |-> 1, price |-> 2500]>> } }

import_financial_data(store, draw, fault) ==
    LET n == IF draw.catalog = <<>> THEN 0 ELSE Len(draw.active) * draw.visits
        \* the patient of the k-th visit of the run
        patient(k) == store.patients[draw.active[((k - 1) \div draw.visits) + 1]]
        visit_date(k) == patient(k).created_at + draw.days_after
        \* INSERT INTO patient_tests ... RETURNING id
        test_row(k) ==
            [id |-> Len(store.patient_tests) + k, patient_id |-> patient(k).id,
             test_id |-> draw.catalog[1].id, status |-> "completed",
             scheduled_at |-> visit_date(k)]
        \* INSERT INTO transactions, type 'payment', patient_test_ids[0]
        txn_row(k) ==
            [type |-> "payment", amount |-> draw.catalog[1].price,
             patient_test_id |-> test_row(k).id, created_at |-> visit_date(k)]
        w == [store EXCEPT !.patient_tests = @ \o [k \in 1..n |-> test_row(k)],
                           !.transactions = @ \o [k \in 1..n |-> txn_row(k)]]
    IN  IF fault = 1
        THEN [store |-> store, ok |-> FALSE, total |-> 0, submitted |-> <<>>,
              writes |-> IF n = 0 THEN <<>> ELSE Statements("INSERT", 1)]
        ELSE [store |-> w, ok |-> TRUE, total |-> Len(w.transactions), submitted |-> <<>>,
              writes |-> Statements("INSERT", 2 * n)]

(***************************************************************************)
(* migrate-access-data.py : AccessMigrationTool.migrate_patients, from the *)
(* cleaned records on.  The statement names no full_name column.  Every    *)
(* execute has its own try: a failing statement is logged, the loop goes   *)
(* on in the aborted transaction and the final commit stores nothing.      *)
(***************************************************************************)
\* INSERT ... ON CONFLICT (patient_id) DO UPDATE SET first_name, last_name,
\* updated_at, one row
InsertUpdate(w, p) ==
    IF HasPatientId(w.patients, p.patient_id)
    THEN [w EXCEPT !.patients = [i \in DOMAIN w.patients |->
                                    IF w.patients[i].patient_id = p.patient_id
                                    THEN [w.patients[i] EXCEPT !.first_name = p.first_name,
                                                               !.last_name = p.last_name]
                                    ELSE w.patients[i]],
                   !.next_id = @ + 1]
    ELSE [w EXCEPT !.patients = Append(@, [PatientRow(p, w.next_id) EXCEPT !.full_name = None]),
                   !.next_id = @ + 1]

RECURSIVE ExecuteEachUpdate(_, _)
ExecuteEachUpdate(w, xs) ==
    IF xs = <<>> THEN w ELSE ExecuteEachUpdate(InsertUpdate(w, Head(xs)), Tail(xs))

\* fault = f > 0: the f-th execute raises.  records_inserted then counts the
\* f - 1 executes before it; every later execute raises as well (the
\* transaction is aborted) and the commit stores nothing of the transaction;
\* the keys the sequence handed out are not given back
migrate_patients(store, xs, fault) ==
    IF fault > 0 /\ fault <= Len(xs)
    THEN [store |-> [store EXCEPT !.next_id =
                        ExecuteEachUpdate(store, SubSeq(xs, 1, fault - 1)).next_id],
          ok |-> TRUE, total |-> fault - 1, submitted |-> <<>>]
    ELSE [store |-> ExecuteEachUpdate(store, xs), ok |-> TRUE, total |-> Len(xs),
          submitted |-> <<>>]


\* migrate_financial_data reads the table, renames its columns, adds len(df)
\* to migration_stats['financial'] and returns len(df); it opens the
\* destination connection and closes it without executing a statement
migrate_financial_data(store, df) ==
    [store |-> store, ok |-> TRUE, total |-> Len(df), submitted |-> <<>>]

\* run_migration with the default table mappings, the Patients and Payments
\* tables both in the source; the 'tests' mapping has no branch.  `total` is
\* the report's total_records_migrated
run_migration(store, xs, fin, fault) ==
    LET p == migrate_patients(store, xs, fault)
        f == migrate_financial_data(p.store, fin)
        migration_stats ==
            [patients |-> p.total, tests |-> 0, financial |-> f.total,
             errors |-> Len(xs) - p.total]
    IN  [store |-> f.store, ok |-> TRUE, submitted |-> <<>>, stats |-> migration_stats,
         total |-> migration_stats.patients + migration_stats.tests
                       + migration_stats.financial]
(***************************************************************************)
(* State                                                                   *)
(***************************************************************************)
VARIABLES
    df,              \* the DataFrame read from the legacy source
    ran,             \* the transformer that has run ("" before)
    column_mapping,  \* the column mapping it built
    out,             \* the records it returned (handed to the loader)
    status,          \* "ok", or "error" when the transformer raised
    script,          \* the script whose functions are being run
    store,           \* the destination store as committed
    patients,        \* the script's in-memory list of patient records
    transactions,    \* its in-memory list of transactions
    patient_tests,   \* its in-memory list of patient tests
    generated_by,    \* the generator that ran last ("" for lists handed in)
    history,         \* the loader runs so far: [op, before, ok, total, submitted, fault]
    source,          \* how the script's main found the legacy source ("" outside main)
    tables,          \* the tables of the legacy database, in the order they are listed
    writes,          \* the DELETE and INSERT statements main has sent to the store
    exit_status      \* the exit status of the process (-1 while it has not ended)

tvars == <<df, ran, column_mapping, out, status>>
lvars == <<script, store, patients, transactions, patient_tests, generated_by, history>>
mvars == <<source, tables, writes, exit_status>>
vars  == <<df, ran, column_mapping, out, status,
           script, store, patients, transactions, patient_tests, generated_by, history,
           source, tables, writes, exit_status>>

\* the transformer state while the loaders are studied, and conversely
TIdle ==
    /\ df = [columns |-> <<>>, rows |-> <<>>]
    /\ ran = ""
    /\ column_mapping = <<>>
    /\ out = <<>>
    /\ status = "ok"

LIdle ==
    /\ script = ""
    /\ store = EmptyStore
    /\ patients = <<>>
    /\ transactions = <<>>
    /\ patient_tests = <<>>
    /\ generated_by = ""
    /\ history = <<>>

MIdle ==
    /\ source = ""
    /\ tables = <<>>
    /\ writes = <<>>
    /\ exit_status = -1

(***************************************************************************)
(* Source frames.  Each schema is a column list with, per column, the      *)
(* values a cell may hold; a frame has 1..MaxRows rows of such cells.      *)
(***************************************************************************)
MaxRows == 2

RECURSIVE RowProduct(_)
RowProduct(pools) ==
    IF pools = <<>> THEN {<<>>}
    ELSE {<<v>> \o r : v \in Head(pools), r \in RowProduct(Tail(pools))}

Schemas ==
    { [columns |-> << <<"G", "i", "v", "e", "n", " ", "N", "a", "m", "e">>, <<"F", "i", "r", "s", "t", " ", "N", "a", "m", "e">> >>,
       pools   |-> << {<<"F", "e", "l", "i", "x">>, <<>>}, {<<"A", "d", "a">>, NaN} >>],
      [columns |-> << <<"F", "n", "a", "m", "e">>, <<"L", "n", "a", "m", "e">>, <<"M", "o", "b", "i", "l", "e">> >>,
       pools   |-> << {<<"F", "e", "l", "i", "x">>, <<"n", "a", "n">>, NaN}, {<<"O", "m", "o", "k", "a", "r", "o">>, <<>>}, {<<"0", "8", "0", "3", ".", ".", ".">>, NaN} >>],
      [columns |-> << <<"F", "i", "r", "s", "t", " ", "N", "a", "m", "e">> >>,
       pools   |-> << {<<" ", "f", "e", "l", "i", "x", " ">>, <<"n", "a", "n">>, <<"N", "o", "n", "e">>, <<"n", "u", "l", "l">>, <<"N", "U", "L", "L">>, <<"N", "a", "n">>, <<" ">>, NaN, None} >>],
      [columns |-> << <<"S", "u", "r", "n", "a", "m", "e">>, <<"S", "e", "x">> >>,
       pools   |-> << {<<"O", "m", "o", "k", "a", "r", "o">>},
                      {<<"F">>, <<"F", "e", "m", "a", "l", "e">>, <<"w", "o", "m", "a", "n">>, <<"M">>, <<"M", "a", "l", "e">>, <<>>, <<"u", "n", "k", "n", "o", "w", "n">>, NaN} >>],
      [columns |-> << <<"L", "a", "s", "t", " ", "N", "a", "m", "e">>, <<"D", "O", "B">> >>,
       pools   |-> << {<<"O", "m", "o", "k", "a", "r", "o">>, <<"n", "u", "l", "l">>},
                      {<<"1", "9", "9", "0", "-", "0", "5", "-", "1", "7">>, <<"1", "9", "9", "0", "/", "0", "5", "/", "1", "7">>, <<"1", "9", "9", "0", "-", "0", "2", "-", "3", "0">>, <<"g", "a", "r", "b", "a", "g", "e">>, <<>>, NaN, None} >>],
      [columns |-> << <<"S", "u", "r", "n", "a", "m", "e">>, <<"R", "e", "s", "i", "d", "e", "n", "c", "e">>, <<"D", "a", "t", "e", " ", "o", "f", " ", "B", "i", "r", "t", "h">> >>,
       pools   |-> << {<<"O", "m", "o", "k", "a", "r", "o">>}, {<<"E", "k", "p", "o", "m", "a">>, NaN}, {<<"1", "9", "9", "0", "-", "0", "5", "-", "1", "7">>, <<"n", "/", "a">>} >>],
      [columns |-> << <<"S", "u", "r", "n", "a", "m", "e">>, <<"P", "a", "t", "i", "e", "n", "t", " ", "I", "D">>, <<"R", "e", "g", " ", "D", "a", "t", "e">>, <<"R", "e", "f", "e", "r", "r", "a", "l", " ", "S", "o", "u", "r", "c", "e">> >>,
       pools   |-> << {<<"O", "m", "o", "k", "a", "r", "o">>}, {<<"P", "7">>, <<"n", "a", "n">>, <<>>, NaN}, {<<"2", "0", "2", "3", "-", "0", "3", "-", "0", "4">>},
                      {<<"R", "e", "f", "e", "r", "r", "a", "l">>, <<"w", "a", "l", "k", " ", "i", "n">>, NaN} >>],
      [columns |-> << <<"F", "i", "r", "s", "t", "N", "a", "m", "e">>, <<"L", "a", "s", "t", "N", "a", "m", "e">>, <<"S", "e", "x">>, <<"P", "h", "o", "n", "e">> >>,
       pools   |-> << {<<"F", "e", "l", "i", "x">>, NaN}, {<<"O", "m", "o", "k", "a", "r", "o">>},
                      {<<"M">>, <<"f">>, <<"F", "e", "m", "a", "l", "e">>, <<"w", "o", "m", "a", "n">>, NaN}, {<<"0", "8", "0", "3", "-", "5", "5", "5", "-", "1", "2", "3", "4">>} >>],
      [columns |-> << <<"I", "D">>, <<"F", "i", "r", "s", "t", "N", "a", "m", "e">>, <<"L", "a", "s", "t", "N", "a", "m", "e">> >>,
       pools   |-> << {<<"7">>, NaN}, {<<"F", "e", "l", "i", "x">>}, {<<"O", "m", "o", "k", "a", "r", "o">>, None} >>],
      [columns |-> << <<"F", "u", "l", "l", " ", "N", "a", "m", "e">>, <<"G", "e", "n", "d", "e", "r">> >>,
       pools   |-> << {<<"F", "e", "l", "i", "x", " ", "O", "m", "o", "k", "a", "r", "o">>, <<"f", "e", "l", "i", "x">>, <<"n", "a", "n">>, NaN}, {<<"F">>} >>],
      [columns |-> << <<"S", "u", "r", "n", "a", "m", "e">>, <<"T", "e", "l">> >>,
       pools   |-> << {<<"O", "m", "o", "k", "a", "r", "o">>}, {<<"0", "8", "0", "3", "1", "2", "3", "4", "5", "6", "7">>, <<>>, <<"n", "o", "n", "e">>} >>] }

Frames ==
    UNION { { [columns |-> sc.columns, rows |-> rs] :
                rs \in UNION { [1..n -> RowProduct(sc.pools)] : n \in 1..MaxRows } } :
            sc \in Schemas }

TInit ==
    /\ df \in Frames
    /\ ran = ""
    /\ column_mapping = EmptyMapping
    /\ out = <<>>
    /\ status = "ok"
    /\ LIdle
    /\ MIdle

(***************************************************************************)
(* One action per transformer: the whole function on the frame             *)
(***************************************************************************)
RunRealAccessExtractor ==
    /\ ran = ""
    /\ ran' = "real-access-extractor"
    /\ column_mapping' = RaeColumnMapping(df.columns)
    /\ out' = transform_real_access_data(df)
    /\ UNCHANGED <<df, status>>
    /\ UNCHANGED <<lvars, mvars>>

RunExtractRealData ==
    /\ ran = ""
    /\ ran' = "extract-real-access-data"
    /\ column_mapping' = ErdColumnMapping(df.columns)
    /\ out' = transform_real_data(df)
    /\ UNCHANGED <<df, status>>
    /\ UNCHANGED <<lvars, mvars>>

RunAccessDatabaseImport ==
    /\ ran = ""
    /\ ran' = "access-database-import"
    /\ column_mapping' = AdiColumnMapping(df.columns)
    /\ out' = transform_access_to_postgres(df)
    /\ UNCHANGED <<df, status>>
    /\ UNCHANGED <<lvars, mvars>>

RunMigratePatients ==
    /\ ran = ""
    /\ ran' = "migrate-access-data"
    /\ out' = IF MadDropnaRaises(df) THEN <<>> ELSE MadClean(df)
    /\ status' = IF MadDropnaRaises(df) THEN "error" ELSE "ok"
    /\ UNCHANGED <<df, column_mapping>>
    /\ UNCHANGED <<lvars, mvars>>

TNext ==
    \/ RunRealAccessExtractor
    \/ RunExtractRealData
    \/ RunAccessDatabaseImport
    \/ RunMigratePatients

SpecTransform == TInit /\ [][TNext]_vars

(***************************************************************************)
(* The loader runs.  Init fixes the script, the store it finds and the     *)
(* lists its functions are called with; a list stays the same for every    *)
(* run of the behaviour, so a second run is a run on the identical input.  *)
(***************************************************************************)
MaxPatients == 3
MaxRuns     == 2

PatientLists ==
    LET PatientPool ==
            { [patient_id |-> <<"O", "M", "C", "-", "2", "0", "2", "3", "-", "0", "0", "0", "1">>, first_name |-> <<"F", "E", "L", "I", "X">>, last_name |-> <<"O", "M", "O", "K", "A", "R", "O">>,
               gender |-> <<"m", "a", "l", "e">>, pathway |-> <<"s", "e", "l", "f">>, created_at |-> 1100],
              [patient_id |-> <<"O", "M", "C", "-", "2", "0", "2", "3", "-", "0", "0", "0", "1">>, first_name |-> <<"G", "R", "A", "C", "E">>, last_name |-> <<"O", "M", "O">>,
               gender |-> <<"f", "e", "m", "a", "l", "e">>, pathway |-> <<"r", "e", "f", "e", "r", "r", "a", "l">>, created_at |-> Today - 1],
              [patient_id |-> <<"O", "M", "C", "-", "R", "E", "A", "L", "-", "0", "0", "0", "0", "2">>, first_name |-> <<"J", "A", "N", "E">>, last_name |-> <<"U", "G", "W", "U", "E", "G", "B", "U">>,
               gender |-> <<"f", "e", "m", "a", "l", "e">>, pathway |-> <<"s", "e", "l", "f">>, created_at |-> Today - 1] }
    IN
        UNION { [1..n -> PatientPool] : n \in 0..MaxPatients }

\* <<transactions, patient_tests>> as handed to bulk_insert_transactions; the
\* first is also the Payments table that run_migration reads
TxnInputs ==
    LET Txn(id, pid) ==
            [id |-> id, patient_id |-> pid, total_amount |-> 2500, transaction_date |-> 1200]
        Test(id, pid) ==
            [transaction_id |-> id, patient_id |-> pid, test_name |-> "MALARIA PARASITE",
             test_date |-> 1200]
        UnknownId == <<"O", "M", "C", "-", "2", "0", "2", "1", "-", "0", "9", "9", "9">>
    IN
        { << <<>>, <<>> >>,
          << <<Txn(1, <<"O", "M", "C", "-", "2", "0", "2", "3", "-", "0", "0", "0", "1">>)>>, <<Test(1, <<"O", "M", "C", "-", "2", "0", "2", "3", "-", "0", "0", "0", "1">>)>> >>,
          << <<Txn(1, UnknownId), Txn(2, <<"O", "M", "C", "-", "R", "E", "A", "L", "-", "0", "0", "0", "0", "2">>), Txn(3, <<"O", "M", "C", "-", "2", "0", "2", "3", "-", "0", "0", "0", "1">>)>>,
             <<Test(1, UnknownId), Test(2, <<"O", "M", "C", "-", "R", "E", "A", "L", "-", "0", "0", "0", "0", "2">>)>> >>,
          << <<Txn(1, <<"O", "M", "C", "-", "2", "0", "2", "5", "-", "0", "0", "0", "1">>), Txn(2, UnknownId)>>, <<Test(2, UnknownId)>> >> }

\* the stores a run may find: empty, or holding a record entered through the
\* application today and an older imported one
ExistingStore ==
    [ patients |->
        << [id |-> 1, patient_id |-> <<"O", "M", "C", "-", "2", "0", "2", "5", "-", "0", "0", "0", "1">>, first_name |-> <<"A", "N", "D", "R", "E", "W">>,
            last_name |-> <<"U", "G", "W", "U", "E", "G", "B", "U">>, gender |-> <<"m", "a", "l", "e">>, pathway |-> <<"r", "e", "f", "e", "r", "r", "a", "l">>,
            created_at |-> Today, full_name |-> <<"A", "N", "D", "R", "E", "W", " ", "U", "G", "W", "U", "E", "G", "B", "U">>],
           [id |-> 2, patient_id |-> <<"O", "M", "C", "-", "2", "0", "2", "3", "-", "0", "0", "0", "1">>, first_name |-> <<"P", "E", "T", "E", "R">>,
            last_name |-> <<"O", "D", "I", "A">>, gender |-> <<"m", "a", "l", "e">>, pathway |-> <<"s", "e", "l", "f">>,
            created_at |-> 1100, full_name |-> <<"P", "E", "T", "E", "R", " ", "O", "D", "I", "A">>] >>,
      transactions |-> <<>>, patient_tests |-> <<>>, next_id |-> 3 ]

InitialStores == {EmptyStore, ExistingStore}

Init ==
    LET Scripts == { "access-database-import", "comprehensive-data-migration",
                     "complete-data-migration", "efficient-bulk-import", "migrate-access-data",
                     "financial-transactions-import", "real-access-extractor",
                     "extract-real-access-data", "import-real-data" }
    IN
        /\ TIdle
        /\ MIdle
        /\ script \in Scripts
        /\ store \in InitialStores
        /\ patients \in IF script \in {"efficient-bulk-import", "financial-transactions-import",
                                        "import-real-data"}
                         THEN {<<>>} ELSE PatientLists
        /\ \E inp \in IF script \in {"comprehensive-data-migration", "migrate-access-data"}
                       THEN TxnInputs
                       ELSE {<< <<>>, <<>> >>} :
              transactions = inp[1] /\ patient_tests = inp[2]
        /\ generated_by = ""
        /\ history = <<>>

Ran(op, r, fault) ==
    Append(history, [op |-> op, before |-> store, ok |-> r.ok, total |-> r.total,
                     submitted |-> r.submitted, fault |-> fault])

CreateComprehensiveDataset ==
    /\ script = "comprehensive-data-migration"
    /\ patients = <<>> /\ history = <<>>
    /\ \E rnd \in RandomDraws : patients' = create_comprehensive_dataset(rnd)
    /\ generated_by' = "create_comprehensive_dataset"
    /\ UNCHANGED <<script, store, transactions, patient_tests, history>>
    /\ UNCHANGED <<tvars, mvars>>

GenerateComprehensiveTransactions ==
    /\ script = "comprehensive-data-migration"
    /\ generated_by = "create_comprehensive_dataset"
    /\ transactions = <<>> /\ history = <<>>
    /\ \E draw \in TransactionDraws(patients) :
          LET r == generate_comprehensive_transactions(patients, draw)
          IN  transactions' = r.transactions /\ patient_tests' = r.patient_tests
    /\ generated_by' = "generate_comprehensive_transactions"
    /\ UNCHANGED <<script, store, patients, history>>
    /\ UNCHANGED <<tvars, mvars>>

GenerateHistoricalPatients ==
    /\ script = "complete-data-migration"
    /\ patients = <<>> /\ history = <<>>
    /\ \E rnd \in HistoricalDraws : patients' = generate_historical_patients(rnd)
    /\ generated_by' = "generate_historical_patients"
    /\ UNCHANGED <<script, store, transactions, patient_tests, history>>
    /\ UNCHANGED <<tvars, mvars>>

BulkInsertPostgres ==
    /\ script = "access-database-import"
    /\ Len(history) < MaxRuns
    /\ \E fault \in 0..NumBatches(patients) :
          LET r == bulk_insert_postgres(store, patients, fault)
          IN  store' = r.store /\ history' = Ran("bulk_insert_postgres", r, fault)
    /\ UNCHANGED <<script, patients, transactions, patient_tests, generated_by>>
    /\ UNCHANGED <<tvars, mvars>>

BulkInsertPatients ==
    /\ script = "comprehensive-data-migration"
    /\ Len(history) < MaxRuns
    /\ \E fault \in 0..NumBatches(patients) :
          LET r == bulk_insert_patients(store, patients, fault)
          IN  store' = r.store /\ history' = Ran("bulk_insert_patients", r, fault)
    /\ UNCHANGED <<script, patients, transactions, patient_tests, generated_by>>
    /\ UNCHANGED <<tvars, mvars>>

BulkInsertTransactions ==
    /\ script = "comprehensive-data-migration"
    /\ Len(history) < MaxRuns
    /\ store' = bulk_insert_transactions(store, transactions, patient_tests).store
    /\ history' = Ran("bulk_insert_transactions",
                      bulk_insert_transactions(store, transactions, patient_tests), 0)
    /\ UNCHANGED <<script, patients, transactions, patient_tests, generated_by>>
    /\ UNCHANGED <<tvars, mvars>>

BulkInsertHistoricalPatients ==
    /\ script = "complete-data-migration"
    /\ Len(history) < MaxRuns
    /\ \E fault \in 0..NumBatches(patients) :
          LET r == bulk_insert_historical_patients(store, patients, fault)
          IN  store' = r.store /\ history' = Ran("bulk_insert_historical_patients", r, fault)
    /\ UNCHANGED <<script, patients, transactions, patient_tests, generated_by>>
    /\ UNCHANGED <<tvars, mvars>>

\* execute_bulk_insert generates its own records on every run
ExecuteBulkInsert ==
    /\ script = "efficient-bulk-import"
    /\ Len(history) < MaxRuns
    /\ \E rnd \in RandomDraws, fault \in 0..NumBatches([k \in 1..GenCount |-> k]) :
          /\ patients' = generate_bulk_insert_sql(rnd)
          /\ generated_by' = "generate_bulk_insert_sql"
          /\ store' = execute_bulk_insert(store, generate_bulk_insert_sql(rnd), fault).store
          /\ history' = Ran("execute_bulk_insert",
                            execute_bulk_insert(store, generate_bulk_insert_sql(rnd), fault), fault)
    /\ UNCHANGED <<script, transactions, patient_tests>>
    /\ UNCHANGED <<tvars, mvars>>

MigratePatients ==
    /\ script = "migrate-access-data"
    /\ Len(history) < MaxRuns
    /\ \E fault \in 0..Len(patients) :
          LET r == migrate_patients(store, patients, fault)
          IN  store' = r.store /\ history' = Ran("migrate_patients", r, fault)
    /\ UNCHANGED <<script, patients, transactions, patient_tests, generated_by>>
    /\ UNCHANGED <<tvars, mvars>>

\* a run of a loader that commits once; the statements it sent are recorded
RanOnce(op, r, fault) ==
    Append(history, [op |-> op, before |-> store, ok |-> r.ok, total |-> r.total,
                     submitted |-> <<>>, fault |-> fault, writes |-> r.writes])

ImportRealPatientData ==
    /\ script = "real-access-extractor"
    /\ Len(history) < MaxRuns
    /\ \E fault \in 0..Len(patients) :
          LET r == import_real_patient_data(store, patients, fault)
          IN  store' = r.store /\ history' = RanOnce("import_real_patient_data", r, fault)
    /\ UNCHANGED <<script, patients, transactions, patient_tests, generated_by>>
    /\ UNCHANGED <<tvars, mvars>>

ImportRealPatients ==
    /\ script = "extract-real-access-data"
    /\ Len(history) < MaxRuns
    /\ \E fault \in 0..Len(patients) :
          LET r == import_real_patients(store, patients, fault)
          IN  store' = r.store /\ history' = RanOnce("import_real_patients", r, fault)
    /\ UNCHANGED <<script, patients, transactions, patient_tests, generated_by>>
    /\ UNCHANGED <<tvars, mvars>>

ImportAccessPatients ==
    /\ script = "import-real-data"
    /\ Len(history) < MaxRuns
    /\ \E fault \in 0..Len(real_patients) :
          LET r == import_access_patients(store, fault)
          IN  store' = r.store /\ history' = RanOnce("import_access_patients", r, fault)
    /\ UNCHANGED <<script, patients, transactions, patient_tests, generated_by>>
    /\ UNCHANGED <<tvars, mvars>>

RunMigration ==
    /\ script = "migrate-access-data"
    /\ Len(history) < MaxRuns
    /\ \E fault \in 0..Len(patients) :
          LET r == run_migration(store, patients, transactions, fault)
          IN  /\ store' = r.store
              /\ history' = Append(history,
                     [op |-> "run_migration", before |-> store, ok |-> r.ok,
                      total |-> r.total, submitted |-> <<>>, fault |-> fault,
                      stats |-> r.stats])
    /\ UNCHANGED <<script, patients, transactions, patient_tests, generated_by>>
    /\ UNCHANGED <<tvars, mvars>>

\* import_financial_data draws its visits on every run; the run records them
ImportFinancialData ==
    /\ script = "financial-transactions-import"
    /\ Len(history) < MaxRuns
    /\ \E draw \in FinancialDraws(store), fault \in 0..1 :
          LET r == import_financial_data(store, draw, fault)
          IN  /\ store' = r.store
              /\ history' = Append(history,
                     [op |-> "import_financial_data", before |-> store, ok |-> r.ok,
                      total |-> r.total, submitted |-> <<>>, fault |-> fault,
                      draw |-> draw])
    /\ UNCHANGED <<script, patients, transactions, patient_tests, generated_by>>
    /\ UNCHANGED <<tvars, mvars>>

Next ==
    \/ CreateComprehensiveDataset
    \/ GenerateComprehensiveTransactions
    \/ GenerateHistoricalPatients
    \/ BulkInsertPostgres
    \/ BulkInsertPatients
    \/ BulkInsertTransactions
    \/ BulkInsertHistoricalPatients
    \/ ExecuteBulkInsert
    \/ MigratePatients
    \/ RunMigration
    \/ ImportRealPatientData
    \/ ImportRealPatients
    \/ ImportAccessPatients
    \/ ImportFinancialData

Spec == Init /\ [][Next]_vars

(***************************************************************************)
(* The script entry points.  A main is one step: it finds the legacy       *)
(* source in the condition `source`, calls its functions and ends the      *)
(* process.  Each operator returns the store left behind, the statements   *)
(* sent, the list handed to the loader, whether the load completed and the *)
(* exit status (0 unless sys.exit(1) is called).                           *)
(***************************************************************************)

Ended(w, sent, list, ok, code) ==
    [store |-> w, writes |-> sent, patients |-> list, ok |-> ok, exit_status |-> code]

\* real-access-extractor.py : extract_real_access_data, once the file is
\* there.  A table counts as patient data when it has rows and its column
\* names hold at least 2 of the indicators; it replaces the selection when
\*     len(df_full) > len(patient_data) if patient_data is not None else 0
\* which Python reads as (len(df_full) > len(patient_data)) if ... else 0.
\* With nothing selected the function raises into its own except, which
\* returns the DataFrame of extract_from_file_analysis.
NoTable == [columns |-> <<>>, rows |-> <<>>]

RECURSIVE SelectPatientTable(_, _, _)
SelectPatientTable(tbls, i, patient_data) ==
    LET patient_indicators ==
            << <<"n", "a", "m", "e">>, <<"p", "a", "t", "i", "e", "n", "t">>, <<"c", "l", "i", "e", "n", "t">>, <<"f", "i", "r", "s", "t">>, <<"l", "a", "s", "t">>, <<"p", "h", "o", "n", "e">>, <<"c", "o", "n", "t", "a", "c", "t">> >>
        columns == [c \in 1..Len(tbls[i].columns) |-> Lower(tbls[i].columns[c])]
        score == Cardinality({k \in 1..Len(patient_indicators) :
                                 \E c \in 1..Len(columns) : Contains(columns[c], patient_indicators[k])})
        larger == IF patient_data # NoTable
                  THEN Len(tbls[i].rows) > Len(patient_data.rows)
                  ELSE FALSE
    IN  IF i > Len(tbls) THEN patient_data
        ELSE SelectPatientTable(tbls, i + 1,
                 IF Len(tbls[i].rows) > 0 /\ score >= 2 /\ larger THEN tbls[i] ELSE patient_data)

extract_real_access_data(src, tbls) ==
    LET \* extract_from_file_analysis: real_patients_from_screenshots
        RaeKnownFrame ==
            [columns |-> << <<"f", "i", "r", "s", "t", "_", "n", "a", "m", "e">>, <<"l", "a", "s", "t", "_", "n", "a", "m", "e">>, <<"p", "a", "t", "i", "e", "n", "t", "_", "i", "d">>, <<"p", "h", "o", "n", "e">>, <<"p", "a", "t", "h", "w", "a", "y">>,
                            <<"c", "r", "e", "a", "t", "e", "d", "_", "a", "t">> >>,
             rows |-> << << <<"A", "N", "D", "R", "E", "W">>, <<"U", "G", "W", "U", "E", "G", "B", "U">>, <<"O", "M", "C", "-", "2", "0", "2", "4", "-", "6", "3", "0", "5">>, <<"0", "9", "0", "3", "9", "7", "2", "0", "7", "8", "5">>, <<"R", "e", "f", "e", "r", "r", "a", "l">>,
                            <<"2", "0", "2", "4", "-", "1", "1", "-", "2", "9">> >>,
                         << <<"J", "A", "N", "E">>, <<"U", "G", "W", "U", "E", "G", "B", "U">>, NaN, <<"0", "7", "0", "5", "9", "8", "6", "5", "4", "8", "1">>, NaN, NaN >> >>]
        patient_data == IF src = "ok" THEN SelectPatientTable(tbls, 1, NoTable) ELSE NoTable
    IN  IF patient_data # NoTable THEN patient_data ELSE RaeKnownFrame

\* real-access-extractor.py : main.  os.path.getsize raises for a missing
\* file before the try of extract_real_access_data and main's except only
\* prints.
RaeMain(st, src, tbls, fault) ==
    IF src = "missing" THEN Ended(st, <<>>, <<>>, FALSE, 0)
    ELSE LET list == transform_real_access_data(extract_real_access_data(src, tbls))
             r == import_real_patient_data(st, list, fault)
         IN  Ended(r.store, r.writes, list, r.ok, 0)

\* extract-real-access-data.py : main.  A table is used only if it has rows;
\* any exception of the first attempt leads to the fallback, which opens the
\* file and imports known_patients; sys.exit(1) only if the fallback raises.
ErdMain(st, src, d, fault, fault2) ==
    LET
        \* extract-real-access-data.py : main, known_patients of the fallback
        ErdKnownPatients ==
            << [patient_id |-> <<"O", "M", "C", "-", "2", "0", "2", "4", "-", "6", "3", "0", "5">>, first_name |-> <<"A", "N", "D", "R", "E", "W">>, last_name |-> <<"U", "G", "W", "U", "E", "G", "B", "U">>,
                phone |-> <<"0", "9", "0", "3", "9", "7", "2", "0", "7", "8", "5">>, date_of_birth |-> <<"1", "9", "9", "0", "-", "0", "1", "-", "0", "1">>, gender |-> <<"m", "a", "l", "e">>,
                address |-> <<"B", "e", "n", "i", "n", " ", "C", "i", "t", "y", ",", " ", "E", "d", "o", " ", "S", "t", "a", "t", "e">>, pathway |-> <<"r", "e", "f", "e", "r", "r", "a", "l">>,
                created_at |-> <<"2", "0", "2", "4", "-", "1", "1", "-", "2", "9">>],
               [patient_id |-> <<"O", "M", "C", "-", "U", "G", "W", "U", "-", "0", "0", "0", "1">>, first_name |-> <<"J", "A", "N", "E">>, last_name |-> <<"U", "G", "W", "U", "E", "G", "B", "U">>,
                phone |-> <<"0", "7", "0", "5", "9", "8", "6", "5", "4", "8", "1">>, date_of_birth |-> <<"1", "9", "8", "5", "-", "0", "1", "-", "0", "1">>, gender |-> <<"f", "e", "m", "a", "l", "e">>,
                address |-> <<"B", "e", "n", "i", "n", " ", "C", "i", "t", "y", ",", " ", "E", "d", "o", " ", "S", "t", "a", "t", "e">>, pathway |-> <<"s", "e", "l", "f">>,
                created_at |-> <<"2", "0", "2", "4", "-", "0", "1", "-", "0", "1">>] >>
    IN
        LET extracted == src = "ok" /\ d.rows # <<>>
            list  == IF extracted THEN transform_real_data(d) ELSE <<>>
            first == IF extracted THEN import_real_patients(st, list, fault)
                     ELSE [store |-> st, ok |-> FALSE, writes |-> <<>>]
            again == import_real_patients(first.store, ErdKnownPatients, fault2)
        IN  IF first.ok THEN Ended(first.store, first.writes, list, TRUE, 0)
            ELSE IF src = "missing" THEN Ended(first.store, first.writes, list, FALSE, 1)
            ELSE Ended(again.store, first.writes \o again.writes, ErdKnownPatients, again.ok,
                       IF again.ok THEN 0 ELSE 1)

\* access-database-import.py : main.  connect_to_access and
\* analyze_access_structure raise, main prints and calls sys.exit(1).
AdiMain(st, src, d, fault) ==
    IF src # "ok" THEN Ended(st, <<>>, <<>>, FALSE, 1)
    ELSE LET list == transform_access_to_postgres(d)
             r == bulk_insert_postgres(st, list, fault)
         IN  Ended(r.store, <<"DELETE">> \o Statements("INSERT", Len(r.submitted)), list,
                   r.ok, IF r.ok THEN 0 ELSE 1)

\* efficient-bulk-import.py : main prints "Bulk import failed" and returns
EffMain(st, rnd, fault) ==
    LET list == generate_bulk_insert_sql(rnd)
        r == execute_bulk_insert(st, list, fault)
    IN  Ended(r.store, Statements("INSERT", Len(r.submitted)), list, r.ok, 0)

\* financial-transactions-import.py : main prints "Financial import failed"
\* and returns
FinMain(st, draw, fault) ==
    LET r == import_financial_data(st, draw, fault)
    IN  Ended(r.store, r.writes, <<>>, r.ok, 0)

MainScripts == { "real-access-extractor", "extract-real-access-data",
                 "access-database-import", "efficient-bulk-import",
                 "financial-transactions-import" }

ReadsSource(s) ==
    s \in {"real-access-extractor", "extract-real-access-data", "access-database-import"}

MaxTables == 2

\* the legacy databases real-access-extractor may find: up to MaxTables
\* tables, each a patient table of one or two rows, such a table without
\* rows, or a price list
LegacyTables ==
    LET patient_columns == << <<"F", "i", "r", "s", "t", " ", "N", "a", "m", "e">>, <<"P", "h", "o", "n", "e">> >>
        pool == { [columns |-> patient_columns, rows |-> << << <<"F", "e", "l", "i", "x">>, <<"0", "8", "0", "3">> >> >>],
                  [columns |-> patient_columns,
                   rows |-> << << <<"A", "d", "a">>, <<"0", "8", "0", "5">> >>, << <<"G", "r", "a", "c", "e">>, <<"0", "8", "0", "7">> >> >>],
                  [columns |-> patient_columns, rows |-> <<>>],
                  [columns |-> << <<"C", "o", "d", "e">>, <<"P", "r", "i", "c", "e">> >>, rows |-> << << <<"M", "P">>, <<"2", "5", "0", "0">> >> >>] }
    IN  UNION { [1..n -> pool] : n \in 0..MaxTables }

MInit ==
    LET SourceConditions == {"ok", "missing", "unreadable", "no_patient_table"}
    IN
        /\ script \in MainScripts
        /\ source \in IF ReadsSource(script) THEN SourceConditions ELSE {"ok"}
        /\ tables \in IF script = "real-access-extractor" /\ source = "ok"
                      THEN LegacyTables ELSE {<<>>}
        /\ df \in IF ReadsSource(script) /\ script # "real-access-extractor" /\ source = "ok"
                  THEN Frames ELSE {[columns |-> <<>>, rows |-> <<>>]}
        /\ ran = "" /\ column_mapping = <<>> /\ out = <<>> /\ status = "ok"
        /\ store \in InitialStores
        /\ patients = <<>> /\ transactions = <<>> /\ patient_tests = <<>>
        /\ generated_by = "" /\ history = <<>>
        /\ writes = <<>>
        /\ exit_status = -1

Finish(r, fault, frame) ==
    /\ store' = r.store
    /\ patients' = r.patients
    /\ writes' = r.writes
    /\ exit_status' = r.exit_status
    /\ history' = <<[op |-> "main", before |-> store, ok |-> r.ok, total |-> 0,
                     submitted |-> <<>>, fault |-> fault]>>
    /\ df' = frame
    /\ UNCHANGED <<script, source, tables, transactions, patient_tests, generated_by>>
    /\ UNCHANGED <<ran, column_mapping, out, status>>

MainRealAccessExtractor ==
    /\ script = "real-access-extractor" /\ exit_status = -1
    /\ \E fault \in 0..1 : Finish(RaeMain(store, source, tables, fault), fault,
                               IF source = "missing" THEN df
                               ELSE extract_real_access_data(source, tables))

MainExtractRealData ==
    /\ script = "extract-real-access-data" /\ exit_status = -1
    /\ \E fault, fault2 \in 0..1 :
          Finish(ErdMain(store, source, df, fault, fault2), fault + fault2, df)

MainAccessDatabaseImport ==
    /\ script = "access-database-import" /\ exit_status = -1
    /\ \E fault \in 0..1 : Finish(AdiMain(store, source, df, fault), fault, df)

MainEfficientBulkImport ==
    /\ script = "efficient-bulk-import" /\ exit_status = -1
    /\ \E rnd \in RandomDraws, fault \in 0..1 : Finish(EffMain(store, rnd, fault), fault, df)

MainFinancialImport ==
    /\ script = "financial-transactions-import" /\ exit_status = -1
    /\ \E draw \in FinancialDraws(store), fault \in 0..1 :
          Finish(FinMain(store, draw, fault), fault, df)

MNext ==
    \/ MainRealAccessExtractor
    \/ MainExtractRealData
    \/ MainAccessDatabaseImport
    \/ MainEfficientBulkImport
    \/ MainFinancialImport

SpecMain == MInit /\ [][MNext]_vars

(***************************************************************************)
(* Properties of the loaders and generators                                *)
(***************************************************************************)
PatientLoaders ==
    {"bulk_insert_postgres", "bulk_insert_patients", "bulk_insert_historical_patients"}

\* the store as run k of the behaviour left it
StoreAfter(k) == IF k < Len(history) THEN history[k + 1].before ELSE store

NoDuplicateIds(tbl) ==
    \A i, j \in 1..Len(tbl) : tbl[i].patient_id = tbl[j].patient_id => i = j

\* C1: a patient loader run twice in sequence on the identical list, against
\* a patients table that was empty before the first run and with no write
\* failure in the store, leaves as many rows
\* after the second run as after the first; and the patients table never
\* holds a patient_id twice.
C1_IdempotentPatientLoad ==
    /\ NoDuplicateIds(store.patients)
    /\ (/\ Len(history) >= 2
        /\ history[1].op \in PatientLoaders
        /\ history[2].op = history[1].op
        /\ history[1].before.patients = <<>>
        /\ history[1].fault = 0 /\ history[2].fault = 0)
       => Len(StoreAfter(2).patients) = Len(StoreAfter(1).patients)

\* C1 witness: bulk_insert_patients has run twice from an empty table on a
\* list of three records that repeats a patient_id, and rows are stored
C1_Witness ==
    /\ Len(history) = 2
    /\ history[1].op = "bulk_insert_patients" /\ history[2].op = "bulk_insert_patients"
    /\ history[1].before.patients = <<>>
    /\ history[1].fault = 0 /\ history[2].fault = 0
    /\ Len(patients) = 3 /\ ~NoDuplicateIds(patients)
    /\ Len(store.patients) = 2

\* rows run k added to a table that only grows during the run
Added(k, tbl) ==
    SubSeq(StoreAfter(k)[tbl], Len(history[k].before[tbl]) + 1, Len(StoreAfter(k)[tbl]))

Resolvable(k, xs) ==
    {i \in 1..Len(xs) : HasPatientId(history[k].before.patients, xs[i].patient_id)}

FromResolvedInput(k, row, xs) ==
    \E i \in Resolvable(k, xs) : \E n \in 1..Len(history[k].before.patients) :
        /\ history[k].before.patients[n].patient_id = xs[i].patient_id
        /\ row = [xs[i] EXCEPT !.patient_id = history[k].before.patients[n].id]

\* C2: every transactions row and every patient_tests row that a run of
\* bulk_insert_transactions inserts is an input row carrying the internal id
\* of a patient that was in the patients table when the run built its lookup
\* map; an input row whose patient_id does not resolve is not inserted: the
\* run adds exactly as many rows as there are resolvable input rows.
C2_ReferentialIntegrity ==
    \A k \in 1..Len(history) :
        history[k].op = "bulk_insert_transactions" =>
            /\ \A j \in 1..Len(Added(k, "transactions")) :
                   FromResolvedInput(k, Added(k, "transactions")[j], transactions)
            /\ \A j \in 1..Len(Added(k, "patient_tests")) :
                   FromResolvedInput(k, Added(k, "patient_tests")[j], patient_tests)
            /\ Len(Added(k, "transactions")) = Cardinality(Resolvable(k, transactions))
            /\ Len(Added(k, "patient_tests")) = Cardinality(Resolvable(k, patient_tests))

\* C2 witness: a run of bulk_insert_transactions inserted some of its input
\* transactions and dropped others
C2_Witness ==
    \E k \in 1..Len(history) :
        /\ history[k].op = "bulk_insert_transactions"
        /\ Len(Added(k, "transactions")) >= 1
        /\ Len(Added(k, "transactions")) < Len(transactions)

\* C10: the records a generator builds in one run have pairwise different
\* patient_id values, whatever the random draws.
C10_GeneratedIdsUnique ==
    generated_by # "" => NoDuplicateIds(patients)

BatchedLoaders ==
    {"bulk_insert_postgres", "bulk_insert_patients", "bulk_insert_historical_patients",
     "execute_bulk_insert"}

\* the loader of run k applied once more to the store it found
Rerun(k, xs, fault) ==
    IF history[k].op = "bulk_insert_postgres" THEN bulk_insert_postgres(history[k].before, xs, fault)
    ELSE bulk_insert_patients(history[k].before, xs, fault)

\* the records of the batches before batch f
BatchesBefore(xs, f) == SubSeq(xs, 1, Min(Len(xs), (f - 1) * BatchSize))

\* C13: when the insert of batch f fails in bulk_insert_postgres or
\* bulk_insert_patients, the loader raises, exactly the batches 1..f have
\* been handed to the store, and the store holds what a complete run on
\* batches 1..f-1 alone leaves: every record of those batches is stored and
\* nothing is rolled back (for f = 1 the store is as the run found it).
C13_PerBatchDurability ==
    \A k \in 1..Len(history) :
        (history[k].op \in {"bulk_insert_postgres", "bulk_insert_patients"} /\ history[k].fault >= 1) =>
            LET f    == history[k].fault
                done == BatchesBefore(patients, f)
            IN  /\ ~history[k].ok
                /\ Len(history[k].submitted) = f
                /\ \A i \in 1..Len(done) :
                       HasPatientId(StoreAfter(k).patients, done[i].patient_id)
                /\ StoreAfter(k).patients =
                       IF f = 1 THEN history[k].before.patients
                       ELSE Rerun(k, done, 0).store.patients

\* C13 witness: bulk_insert_patients failed on its second batch with the
\* two records of the first batch stored
C13_Witness ==
    /\ Len(history) = 1
    /\ history[1].op = "bulk_insert_patients"
    /\ history[1].fault = 2 /\ ~history[1].ok
    /\ history[1].before.patients = <<>>
    /\ Len(patients) = 3
    /\ Len(store.patients) = 2


\* C16: in every patient loader, a run without write failure raises no
\* error even when a record's patient_id is already in the patients table,
\* and every row that was stored before the run and is still stored after
\* it is unchanged in every column.
C16_ConflictIsNoOp ==
    \A k \in 1..Len(history) :
        (history[k].op \in PatientLoaders \cup {"migrate_patients"} /\ history[k].fault = 0) =>
            /\ history[k].ok
            /\ \A i \in 1..Len(history[k].before.patients) :
                   \A j \in 1..Len(StoreAfter(k).patients) :
                       StoreAfter(k).patients[j].id = history[k].before.patients[i].id
                           => StoreAfter(k).patients[j] = history[k].before.patients[i]

\* C18: a second run of bulk_insert_transactions on the same input and the
\* same patients table inserts every resolvable transaction and test once
\* more; a second run of import_financial_data with the same draws and
\* catalog inserts as many tests and payments as the first; a second run
\* of bulk_insert_postgres or bulk_insert_patients (insert guarded by ON
\* CONFLICT DO NOTHING) on the same list adds no patient row.
C18_RetryDuplicates ==
    (Len(history) >= 2 /\ history[2].op = history[1].op
        /\ history[1].fault = 0 /\ history[2].fault = 0) =>
        /\ history[1].op = "bulk_insert_transactions" =>
               /\ Added(2, "transactions") = Added(1, "transactions")
               /\ Added(2, "patient_tests") = Added(1, "patient_tests")
               /\ Len(Added(2, "transactions")) = Cardinality(Resolvable(2, transactions))
               /\ Len(Added(2, "patient_tests")) = Cardinality(Resolvable(2, patient_tests))
        /\ (/\ history[1].op = "import_financial_data"
            /\ history[2].draw = history[1].draw) =>
               /\ Len(Added(2, "transactions")) = Len(Added(1, "transactions"))
               /\ Len(Added(2, "patient_tests")) = Len(Added(1, "patient_tests"))
               /\ Len(Added(2, "transactions")) =
                      Len(history[2].draw.active) * history[2].draw.visits
                          * Len(history[2].draw.catalog)
        /\ history[1].op \in {"bulk_insert_postgres", "bulk_insert_patients"} =>
               Len(StoreAfter(2).patients) = Len(StoreAfter(1).patients)

\* C18 witness: bulk_insert_transactions has run twice on the same three
\* transactions, one of them resolvable, and the transactions table holds
\* that transaction twice
C18_Witness ==
    /\ Len(history) = 2
    /\ history[1].op = "bulk_insert_transactions" /\ history[2].op = "bulk_insert_transactions"
    /\ history[1].before.transactions = <<>>
    /\ Len(transactions) = 3
    /\ Len(Added(1, "transactions")) = 1
    /\ store.transactions = Added(1, "transactions") \o Added(1, "transactions")

\* C20: a batched loader that returns on a list of n records has submitted
\* ceil(n / BatchSize) batches; batch j is the slice of the list from
\* record (j-1)*BatchSize + 1 to record min(j*BatchSize, n), so every batch
\* but the last has exactly BatchSize records, every record is in exactly
\* one batch, and the total reported is n.  (For execute_bulk_insert the
\* list is the one its last run generated.)
C20_BatchingPartition ==
    \A k \in 1..Len(history) :
        (/\ history[k].op \in BatchedLoaders
         /\ history[k].ok
         /\ (history[k].op = "execute_bulk_insert" => k = Len(history))) =>
            LET sub == history[k].submitted
                n   == Len(patients)
                m   == Len(sub)
            IN  /\ m * BatchSize >= n
                /\ (m > 0 => (m - 1) * BatchSize < n)
                /\ \A j \in 1..m :
                       /\ j < m => Len(sub[j]) = BatchSize
                       /\ Len(sub[j]) \in 1..BatchSize
                       /\ \A i \in 1..Len(sub[j]) :
                              sub[j][i] = patients[(j - 1) * BatchSize + i]
                /\ history[k].total = n

\* C20 witness: bulk_insert_postgres returned on a list one record longer
\* than a batch, submitted as a full batch and a batch of one
C20_Witness ==
    /\ Len(history) = 1
    /\ history[1].op = "bulk_insert_postgres" /\ history[1].ok
    /\ Len(patients) = BatchSize + 1
    /\ Len(history[1].submitted) = 2
    /\ Len(history[1].submitted[1]) = BatchSize
    /\ Len(history[1].submitted[2]) = 1

\* the patient rows run k inserted: those carrying a key the sequence
\* handed out during the run
InsertedPatients(k) ==
    {j \in 1..Len(StoreAfter(k).patients) :
        StoreAfter(k).patients[j].id >= history[k].before.next_id}

\* C22: the total_inserted that a returning run of bulk_insert_patients or
\* bulk_insert_postgres reports equals the number of rows the run added to
\* the patients table, also for a list that repeats a patient_id.
C22_ReportedCountTruthful ==
    \A k \in 1..Len(history) :
        (history[k].op \in {"bulk_insert_patients", "bulk_insert_postgres"} /\ history[k].ok)
            => history[k].total = Cardinality(InsertedPatients(k))

\* C23: after create_comprehensive_dataset, generate_comprehensive_transactions,
\* bulk_insert_patients and bulk_insert_transactions have run in sequence on
\* an empty store, every stored transaction references a stored patient
\* that is the record it was generated for, and its transaction_date is on
\* or after that stored patient's created_at.
C23_VisitAfterRegistration ==
    (/\ generated_by = "generate_comprehensive_transactions"
     /\ Len(history) = 2
     /\ history[1].op = "bulk_insert_patients" /\ history[1].ok
     /\ history[1].before = EmptyStore
     /\ history[2].op = "bulk_insert_transactions") =>
        \A t \in 1..Len(store.transactions) :
            \E n \in 1..Len(store.patients) :
                LET row == store.patients[n]
                    p   == patients[store.transactions[t].patient_index]
                IN  /\ row.id = store.transactions[t].patient_id
                    /\ row.patient_id = p.patient_id
                    /\ row.first_name = p.first_name /\ row.last_name = p.last_name
                    /\ row.created_at = p.created_at
                    /\ store.transactions[t].transaction_date >= row.created_at

\* C24: generate_comprehensive_transactions returns at least the target
\* number of transactions (23,000 in the script) for every outcome of the
\* random choices.
C24_TransactionVolume ==
    generated_by = "generate_comprehensive_transactions" => Len(transactions) >= TxnTarget

\* C25: every patient row that exists before a run of execute_bulk_insert or
\* bulk_insert_patients with a patient_id starting with "OMC-2025-" is
\* present and unmodified after the run, whether the run returns or raises,
\* and no record that create_comprehensive_dataset or generate_bulk_insert_sql
\* generates has a patient_id with that prefix.
C25_RealRecordsPreserved ==
    LET Real(pid) == Len(pid) >= 9 /\ SubSeq(pid, 1, 9) = <<"O", "M", "C", "-", "2", "0", "2", "5", "-">>
    IN  /\ \A k \in 1..Len(history) :
              history[k].op \in {"execute_bulk_insert", "bulk_insert_patients"} =>
                  \A i \in 1..Len(history[k].before.patients) :
                      Real(history[k].before.patients[i].patient_id) =>
                          \E j \in 1..Len(StoreAfter(k).patients) :
                              StoreAfter(k).patients[j] = history[k].before.patients[i]
        /\ generated_by \in {"create_comprehensive_dataset", "generate_bulk_insert_sql",
                             "generate_comprehensive_transactions"} =>
              \A i \in 1..Len(patients) : ~Real(patients[i].patient_id)

\* a returning run of execute_bulk_insert on the store that holds a record of
\* 2025 and an older one: the older one is gone, the generated ones are in
C25_Witness ==
    /\ Len(history) >= 1
    /\ history[1].op = "execute_bulk_insert" /\ history[1].ok
    /\ history[1].before = ExistingStore
    /\ \E j \in 1..Len(StoreAfter(1).patients) :
          StoreAfter(1).patients[j] = ExistingStore.patients[1]
    /\ ~\E j \in 1..Len(StoreAfter(1).patients) :
          StoreAfter(1).patients[j].first_name = <<"P", "E", "T", "E", "R">>
    /\ Len(StoreAfter(1).patients) > 1

\* C26: after a run of bulk_insert_patients on the generated dataset, or of
\* execute_bulk_insert, that returns, the patients table holds at least one
\* row whose last_name in upper case is OMOKARO, for every outcome of the
\* random choices, although records with a conflicting patient_id are skipped.
C26_RegressionSurnamePresent ==
    \A k \in 1..Len(history) :
        (/\ history[k].ok
         /\ \/ history[k].op = "execute_bulk_insert"
            \/ history[k].op = "bulk_insert_patients" /\ generated_by # "") =>
            Cardinality({j \in 1..Len(StoreAfter(k).patients) :
                Upper(StoreAfter(k).patients[j].last_name) = <<"O", "M", "O", "K", "A", "R", "O">>}) >= 1

\* the random module never drew OMOKARO, one generated record was skipped on
\* a conflicting patient_id, and the run returned
C26_Witness ==
    /\ generated_by = "create_comprehensive_dataset"
    /\ Len(history) = 1 /\ history[1].op = "bulk_insert_patients" /\ history[1].ok
    /\ Cardinality(InsertedPatients(1)) < Len(patients)
    /\ Cardinality({i \in 1..Len(patients) : patients[i].last_name = <<"O", "M", "O", "K", "A", "R", "O">>}) = 1
    /\ \E j \in InsertedPatients(1) : store.patients[j].last_name = <<"O", "M", "O", "K", "A", "R", "O">>

\* C27: after run_migration, the transactions table holds as many new rows
\* as migration_stats['financial'] counts, and the report's
\* total_records_migrated includes no financial record that is not stored.
C27_FinancialPersisted ==
    \A k \in 1..Len(history) :
        history[k].op = "run_migration" =>
            /\ history[k].stats.financial =
                   Len(StoreAfter(k).transactions) - Len(history[k].before.transactions)
            /\ history[k].total - history[k].stats.patients - history[k].stats.tests =
                   Len(StoreAfter(k).transactions) - Len(history[k].before.transactions)

\* C28: the number migrate_patients returns equals the number of records of
\* its list that the call left in the patients table (as a new row, or in
\* the names of the row it updated), also when the INSERT of one record
\* fails and the transaction is aborted.  Stated for lists of distinct
\* patient_ids none of whose records is in the table before the call, so
\* that every write of the call can be told from the table.
C28_MigratedCountTruthful ==
    LET Holds(tbl, p) ==
            \E j \in 1..Len(tbl) :
                /\ tbl[j].patient_id = p.patient_id
                /\ tbl[j].first_name = p.first_name
                /\ tbl[j].last_name = p.last_name
    IN  \A k \in 1..Len(history) :
            (/\ history[k].op = "migrate_patients"
             /\ NoDuplicateIds(patients)
             /\ \A i \in 1..Len(patients) : ~Holds(history[k].before.patients, patients[i])) =>
                history[k].total =
                    Cardinality({i \in 1..Len(patients) :
                                    Holds(StoreAfter(k).patients, patients[i])})

\* C29: a run of import_real_patients, import_real_patient_data or
\* import_access_patients in which an INSERT fails raises, and leaves the
\* patients, transactions and patient_tests tables exactly as they were
\* before the call: the rows its DELETEs removed are there and none of the
\* rows it inserted is.
C29_SingleCommitAllOrNothing ==
    \A k \in 1..Len(history) :
        history[k].op \in {"import_real_patients", "import_real_patient_data",
                           "import_access_patients"} =>
            /\ history[k].fault > 0 => ~history[k].ok
            /\ ~history[k].ok =>
                    /\ StoreAfter(k).patients = history[k].before.patients
                    /\ StoreAfter(k).transactions = history[k].before.transactions
                    /\ StoreAfter(k).patient_tests = history[k].before.patient_tests

\* import_real_patients fails at its second INSERT, on a table that held
\* two rows: one INSERT had gone through, and the two rows are there
C29_Witness ==
    /\ Len(history) = 1
    /\ history[1].op = "import_real_patients" /\ ~history[1].ok
    /\ history[1].before = ExistingStore
    /\ Len(history[1].writes) = 5
    /\ store.patients = ExistingStore.patients

\* C30: in bulk_insert_postgres and execute_bulk_insert the clearing DELETE
\* is committed with the first batch: after a run on an empty list, or a run
\* whose first batch fails, the patients table is as before the call; after
\* a run that fails in a later batch, no row that the DELETE removed is in
\* the table and the rows it left are.
C30_ClearDurableWithFirstCommit ==
    \A k \in 1..Len(history) :
        history[k].op \in {"bulk_insert_postgres", "execute_bulk_insert"} =>
            LET before == history[k].before.patients
                after  == StoreAfter(k).patients
                Cleared(row) ==
                    IF history[k].op = "bulk_insert_postgres"
                    THEN row.created_at >= Today - 7
                    ELSE ~(Len(row.patient_id) >= 9 /\ SubSeq(row.patient_id, 1, 9) = <<"O", "M", "C", "-", "2", "0", "2", "5", "-">>)
            IN  /\ (history[k].submitted = <<>> \/ history[k].fault = 1) => after = before
                /\ history[k].fault > 1 =>
                       /\ ~history[k].ok
                       /\ \A i \in 1..Len(before) :
                              Cleared(before[i]) <=>
                                  ~\E j \in 1..Len(after) : after[j].id = before[i].id

\* bulk_insert_postgres fails in its second batch on a table holding a row
\* of today and an older one: the first batch is stored, the row of today
\* is gone, the older one is there
C30_Witness ==
    /\ Len(history) = 1
    /\ history[1].op = "bulk_insert_postgres"
    /\ history[1].fault = 2 /\ ~history[1].ok
    /\ history[1].before = ExistingStore
    /\ \E j \in 1..Len(store.patients) : store.patients[j].id >= ExistingStore.next_id
    /\ ~\E j \in 1..Len(store.patients) : store.patients[j].id = 1
    /\ \E j \in 1..Len(store.patients) : store.patients[j] = ExistingStore.patients[2]
(***************************************************************************)
(* Properties of the transformers                                          *)
(***************************************************************************)
Rae == "real-access-extractor"
Erd == "extract-real-access-data"
Adi == "access-database-import"
Mad == "migrate-access-data"

\* the transformer `r` applied to a frame
TransformBy(r, d) ==
    IF r = Rae THEN transform_real_access_data(d)
    ELSE IF r = Erd THEN transform_real_data(d)
    ELSE transform_access_to_postgres(d)

\* the field the if / elif chain of transformer `r` assigns a column to
FieldOfBy(r, col) ==
    IF r = Rae THEN RaeFieldOf(Lower(col)) ELSE ErdFieldOf(Lower(col))

\* the source row a returned record was built from
SrcRow(rec) == df.rows[rec.src_index + 1]

\* the cell of that row in the column mapped to `field` (NaN when unmapped)
SrcCell(rec, field) ==
    IF field \in DOMAIN column_mapping
    THEN Cell(df.columns, SrcRow(rec), column_mapping[field])
    ELSE NaN

MatchingColumns(r, f) ==
    {i \in 1..Len(df.columns) : FieldOfBy(r, df.columns[i]) = f}

MappedFields(r) ==
    {FieldOfBy(r, df.columns[i]) : i \in 1..Len(df.columns)} \ {""}

GivenFirst == << <<"G", "i", "v", "e", "n", " ", "N", "a", "m", "e">>, <<"F", "i", "r", "s", "t", " ", "N", "a", "m", "e">> >>

\* C3 (as the spec states it): when several columns match the keyword set
\* of one field, the field is mapped to the first of them in column order;
\* for the columns Given Name, First Name the mapper of
\* real-access-extractor maps first_name to Given Name.
C3_FirstMatchWins ==
    ran \in {Rae, Erd} =>
        /\ DOMAIN column_mapping = MappedFields(ran)
        /\ \A f \in DOMAIN column_mapping :
               \E i \in MatchingColumns(ran, f) :
                   /\ column_mapping[f] = df.columns[i]
                   /\ \A j \in MatchingColumns(ran, f) : i <= j
        /\ (ran = Rae /\ df.columns = GivenFirst)
               => column_mapping["first_name"] = <<"G", "i", "v", "e", "n", " ", "N", "a", "m", "e">>

\* C3 (amended): the fields mapped are those some column matches, and when
\* several columns match the keyword set of one field, the field is mapped
\* to the last of them in column order (every assignment overwrites the
\* one before); for the columns Given Name, First Name both mappers map
\* first_name to First Name.
C3_LastMatchWins ==
    ran \in {Rae, Erd} =>
        /\ DOMAIN column_mapping = MappedFields(ran)
        /\ \A f \in DOMAIN column_mapping :
               \E i \in MatchingColumns(ran, f) :
                   /\ column_mapping[f] = df.columns[i]
                   /\ \A j \in MatchingColumns(ran, f) : j <= i
        /\ df.columns = GivenFirst
               => column_mapping["first_name"] = <<"F", "i", "r", "s", "t", " ", "N", "a", "m", "e">>

\* C3 witness: real-access-extractor has mapped the columns Given Name,
\* First Name, both of which match first_name
C3_Witness ==
    /\ ran = Rae
    /\ df.columns = GivenFirst
    /\ Cardinality(MatchingColumns(Rae, "first_name")) = 2
    /\ column_mapping["first_name"] = <<"F", "i", "r", "s", "t", " ", "N", "a", "m", "e">>

\* a name as the spec coerces it: str, strip, upper-case, and the texts
\* nan, none, null in any letter case taken as empty
SentinelTexts == {<<"n", "a", "n">>, <<"n", "o", "n", "e">>, <<"n", "u", "l", "l">>}

CoercedName(v) ==
    IF Lower(Strip(Str(v))) \in SentinelTexts THEN <<>> ELSE Upper(Strip(Str(v)))

NameCell(row, field) ==
    IF field \in DOMAIN column_mapping
    THEN Cell(df.columns, row, column_mapping[field])
    ELSE <<>>

\* C4: a row whose two name fields are both empty after coercion (column
\* missing, empty text or a sentinel such as nan) yields no record, and no
\* record returned has first_name and last_name both empty.
C4_NameEmptinessSkip ==
    ran \in {Rae, Erd} =>
        /\ \A i \in 1..Len(out) : ~(out[i].first_name = <<>> /\ out[i].last_name = <<>>)
        /\ \A k \in 1..Len(df.rows) :
               (/\ CoercedName(NameCell(df.rows[k], "first_name")) = <<>>
                /\ CoercedName(NameCell(df.rows[k], "last_name")) = <<>>)
               => \A i \in 1..Len(out) : out[i].src_index # k - 1

\* C5: each name of a returned record is the source value as a string,
\* stripped and upper-cased, and empty when that value is nan, none or null
\* in any letter case.
C5_NameSentinels ==
    ran \in {Rae, Erd} =>
        \A i \in 1..Len(out) :
            /\ out[i].first_name = CoercedName(NameCell(SrcRow(out[i]), "first_name"))
            /\ out[i].last_name = CoercedName(NameCell(SrcRow(out[i]), "last_name"))

Female == <<"f", "e", "m", "a", "l", "e">>
Male   == <<"m", "a", "l", "e">>

SaysFemale(v) ==
    \/ Contains(Lower(Str(v)), <<"f">>)
    \/ Contains(Lower(Str(v)), <<"w", "o", "m", "a", "n">>)
    \/ Contains(Lower(Str(v)), <<"f", "e", "m", "a", "l", "e">>)

\* C6: in the three record transformers a record's gender is female exactly
\* when a gender column is mapped and its lower-cased value contains f,
\* woman or female, and male otherwise; so F, Female and woman give female,
\* and M, Male, the empty text, a missing value and an unmapped gender
\* give male.
C6_GenderClassification ==
    ran \in {Rae, Erd, Adi} =>
        \A i \in 1..Len(out) :
            LET v == SrcCell(out[i], "gender")
                mapped == "gender" \in DOMAIN column_mapping
            IN  /\ out[i].gender \in {Female, Male}
                /\ out[i].gender = Female <=> (mapped /\ SaysFemale(v))
                /\ (mapped /\ v \in {<<"F">>, <<"F", "e", "m", "a", "l", "e">>, <<"w", "o", "m", "a", "n">>}) => out[i].gender = Female
                /\ (mapped /\ v \in {<<"M">>, <<"M", "a", "l", "e">>, <<>>, NaN}) => out[i].gender = Male
                /\ ~mapped => out[i].gender = Male

\* C6 witness: real-access-extractor returned a female record for the value
\* woman and a male record for the empty text
C6_Witness ==
    /\ ran = Rae
    /\ Len(out) = 2
    /\ SrcCell(out[1], "gender") = <<"w", "o", "m", "a", "n">> /\ out[1].gender = Female
    /\ SrcCell(out[2], "gender") = <<>> /\ out[2].gender = Male

\* the position of the column mapped to date_of_birth (0 when unmapped)
DobCol ==
    IF "date_of_birth" \in DOMAIN column_mapping
    THEN ColIndex(df.columns, column_mapping["date_of_birth"])
    ELSE 0

Unparseable(v) == ~(NotNa(v) /\ IsDateText(Strip(v)))

GoodDate == <<"2", "0", "0", "1", "-", "0", "2", "-", "0", "3">>

\* the frame with every unparseable date of birth replaced by a good date
Repaired ==
    [df EXCEPT !.rows =
        [k \in 1..Len(df.rows) |->
            [c \in 1..Len(df.columns) |->
                IF c = DobCol /\ Unparseable(df.rows[k][c]) THEN GoodDate ELSE df.rows[k][c]]]]

\* C7: a date of birth that is missing or cannot be parsed leaves the row
\* in the output with date_of_birth 1980-01-01: the transformer returns as
\* many records as for the same frame with those dates repaired, and each
\* record built from such a row equals the record of the repaired row in
\* every field but date_of_birth, which is the sentinel.
C7_DateFallback ==
    ran \in {Rae, Erd, Adi} =>
        IF DobCol = 0
        THEN \A i \in 1..Len(out) : out[i].date_of_birth = SentinelDob
        ELSE LET ref == TransformBy(ran, Repaired)
             IN  /\ Len(out) = Len(ref)
                 /\ \A i \in 1..Len(out) :
                        IF Unparseable(SrcRow(out[i])[DobCol])
                        THEN out[i] = [ref[i] EXCEPT !.date_of_birth = SentinelDob]
                        ELSE out[i] = ref[i]

\* C7 witness: extract-real-access-data returned a record with the sentinel
\* for a row whose date of birth is the text garbage, next to a record with
\* a parsed date
C7_Witness ==
    /\ ran = Erd
    /\ DobCol # 0
    /\ Len(out) = 2
    /\ SrcRow(out[1])[DobCol] = <<"g", "a", "r", "b", "a", "g", "e">>
    /\ out[1].date_of_birth = SentinelDob
    /\ out[1].last_name = <<"O", "M", "O", "K", "A", "R", "O">>
    /\ out[2].date_of_birth = <<"1", "9", "9", "0", "-", "0", "5", "-", "1", "7">>

FelixFrame ==
    [columns |-> << <<"F", "n", "a", "m", "e">>, <<"L", "n", "a", "m", "e">>, <<"M", "o", "b", "i", "l", "e">> >>,
     rows    |-> << << <<"F", "e", "l", "i", "x">>, <<"O", "m", "o", "k", "a", "r", "o">>, <<"0", "8", "0", "3", ".", ".", ".">> >> >>]

\* C8: for the single row Fname Felix, Lname Omokaro, Mobile 0803... the
\* mapper infers first_name from Fname, last_name from Lname and phone from
\* Mobile, and exactly one record is returned, with first_name FELIX,
\* last_name OMOKARO, full_name FELIX OMOKARO, gender male, pathway self
\* and the synthesized patient_id OMC-REAL-00001.
C8_EndToEnd ==
    (ran \in {Rae, Erd} /\ df = FelixFrame) =>
        /\ DOMAIN column_mapping = {"first_name", "last_name", "phone"}
        /\ column_mapping["first_name"] = <<"F", "n", "a", "m", "e">>
        /\ column_mapping["last_name"] = <<"L", "n", "a", "m", "e">>
        /\ column_mapping["phone"] = <<"M", "o", "b", "i", "l", "e">>
        /\ Len(out) = 1
        /\ out[1].first_name = <<"F", "E", "L", "I", "X">>
        /\ out[1].last_name = <<"O", "M", "O", "K", "A", "R", "O">>
        /\ out[1].full_name = <<"F", "E", "L", "I", "X", " ", "O", "M", "O", "K", "A", "R", "O">>
        /\ out[1].gender = Male
        /\ out[1].pathway = <<"s", "e", "l", "f">>
        /\ out[1].patient_id = <<"O", "M", "C", "-", "R", "E", "A", "L", "-", "0", "0", "0", "0", "1">>
        /\ out[1].phone = <<"0", "8", "0", "3", ".", ".", ".">>

\* C8 witness: extract-real-access-data has transformed that frame
C8_Witness ==
    /\ ran = Erd
    /\ df = FelixFrame
    /\ Len(out) = 1
    /\ out[1].full_name = <<"F", "E", "L", "I", "X", " ", "O", "M", "O", "K", "A", "R", "O">>

\* C9: every record handed to a loader has gender male or female and
\* pathway self or referral, never null or another value.
C9_EnumeratedFields ==
    ran # "" =>
        \A i \in 1..Len(out) :
            /\ out[i].gender \in {Male, Female}
            /\ out[i].pathway \in {<<"s", "e", "l", "f">>, <<"r", "e", "f", "e", "r", "r", "a", "l">>}

\* the source value of a record's patient_id (NaN when no column gives one)
SrcPatientId(rec) ==
    IF ran = Mad
    THEN (IF MadHas(df.columns, <<"p", "a", "t", "i", "e", "n", "t", "_", "i", "d">>)
          THEN MadCol(df.columns, SrcRow(rec), <<"p", "a", "t", "i", "e", "n", "t", "_", "i", "d">>) ELSE NaN)
    ELSE SrcCell(rec, "patient_id")

\* a source value that is present, non-empty and no sentinel
UsableText(v) ==
    NotNa(v) /\ Strip(v) # <<>> /\ Lower(Strip(v)) \notin SentinelTexts

SynthesizedIds(index) ==
    {RaeSynthId(index), AdiSynthId(index), MadSynthId(index)}

\* C11: the patient_id of every returned record is the mapped source value
\* itself when that value is non-empty and no sentinel, and otherwise the
\* synthesized <PREFIX>-<n> with n the row's position padded to 5 digits;
\* it is never empty or null.
C11_PatientIdRule ==
    ran \in {Rae, Adi, Mad} =>
        \A i \in 1..Len(out) :
            /\ NotNa(out[i].patient_id) /\ out[i].patient_id # <<>>
            /\ IF UsableText(SrcPatientId(out[i]))
               THEN out[i].patient_id = Strip(SrcPatientId(out[i]))
               ELSE out[i].patient_id \in SynthesizedIds(out[i].src_index)

\* C12: the phone of every returned record is a non-empty text; when no
\* column is mapped to phone, or the mapped value is empty or a sentinel,
\* a placeholder number stands in.
C12_PhoneNeverEmpty ==
    ran \in {Rae, Erd, Adi} =>
        \A i \in 1..Len(out) :
            /\ NotNa(out[i].phone) /\ out[i].phone # <<>>
            /\ ~UsableText(SrcCell(out[i], "phone")) => IsDigits(out[i].phone)


FieldOrder ==
    << "first_name", "last_name", "phone", "gender", "date_of_birth", "address",
       "patient_id", "created_at", "pathway" >>

\* the places in FieldOrder of the fields whose keywords occur in a column name
MatchingPlaces(col) ==
    {k \in 1..Len(FieldOrder) : AnyIn(RaeTerms[FieldOrder[k]], Lower(col))}

\* C17: in the mapping real-access-extractor builds, every field is mapped
\* to a column for which it is the first field, in the order first_name,
\* last_name, phone, gender, date_of_birth, address, patient_id, created_at,
\* pathway, whose keywords occur in the lower-cased column name, so no
\* column is assigned to two fields; Residence is never the patient_id
\* column and Date of Birth never the created_at column.
C17_FieldPrecedence ==
    ran = Rae =>
        /\ \A f \in DOMAIN column_mapping :
               \E k \in MatchingPlaces(column_mapping[f]) :
                   /\ FieldOrder[k] = f
                   /\ \A j \in MatchingPlaces(column_mapping[f]) : k <= j
        /\ \A f, g \in DOMAIN column_mapping : column_mapping[f] = column_mapping[g] => f = g
        /\ \A f \in DOMAIN column_mapping :
               /\ column_mapping[f] = <<"R", "e", "s", "i", "d", "e", "n", "c", "e">> => f = "address"
               /\ column_mapping[f] = <<"D", "a", "t", "e", " ", "o", "f", " ", "B", "i", "r", "t", "h">> => f = "date_of_birth"

\* C17 witness: real-access-extractor has mapped the columns Surname,
\* Residence, Date of Birth, whose last two also hold "id" and "date"
C17_Witness ==
    /\ ran = Rae
    /\ df.columns = << <<"S", "u", "r", "n", "a", "m", "e">>, <<"R", "e", "s", "i", "d", "e", "n", "c", "e">>, <<"D", "a", "t", "e", " ", "o", "f", " ", "B", "i", "r", "t", "h">> >>
    /\ 2 \in MatchingPlaces(<<"S", "u", "r", "n", "a", "m", "e">>)
    /\ {6, 7} \subseteq MatchingPlaces(<<"R", "e", "s", "i", "d", "e", "n", "c", "e">>)
    /\ {5, 8} \subseteq MatchingPlaces(<<"D", "a", "t", "e", " ", "o", "f", " ", "B", "i", "r", "t", "h">>)
    /\ column_mapping = [last_name |-> <<"S", "u", "r", "n", "a", "m", "e">>, address |-> <<"R", "e", "s", "i", "d", "e", "n", "c", "e">>,
                         date_of_birth |-> <<"D", "a", "t", "e", " ", "o", "f", " ", "B", "i", "r", "t", "h">>]

\* the source value of a name field of a row, as transformer `r` finds it
NameValue(r, row, field) ==
    IF r # Mad THEN NameCell(row, field)
    ELSE IF field = "first_name"
         THEN (IF MadHas(df.columns, <<"f", "i", "r", "s", "t", "_", "n", "a", "m", "e">>) THEN MadCol(df.columns, row, <<"f", "i", "r", "s", "t", "_", "n", "a", "m", "e">>) ELSE NaN)
         ELSE (IF MadHas(df.columns, <<"l", "a", "s", "t", "_", "n", "a", "m", "e">>) THEN MadCol(df.columns, row, <<"l", "a", "s", "t", "_", "n", "a", "m", "e">>) ELSE NaN)

\* C19: in real-access-extractor and migrate-access-data, a source row in
\* which exactly one of first_name and last_name is non-empty after
\* coercion yields a record that reaches the loader, whatever its other
\* cells hold.
C19_OnlyNameEmptinessSkips ==
    ran \in {Rae, Mad} =>
        \A k \in 1..Len(df.rows) :
            ((CoercedName(NameValue(ran, df.rows[k], "first_name")) = <<>>)
                 # (CoercedName(NameValue(ran, df.rows[k], "last_name")) = <<>>))
            => \E i \in 1..Len(out) : out[i].src_index = k - 1
(***************************************************************************)
(* Claims about the script entry points (SpecMain)                         *)
(***************************************************************************)
\* C14: in every script that reads the legacy source, a run that cannot open
\* the source or finds no recognizable patient table sends no DELETE and no
\* INSERT to the destination store and ends with a non-zero exit status.
C14_SourceUnreadableFatal ==
    (ReadsSource(script) /\ source # "ok" /\ exit_status # -1)
        => (writes = <<>> /\ store = history[1].before /\ exit_status # 0)

\* C15: for every script entry point, a run whose load fails ends with a
\* non-zero exit status; only a run that completes the load exits with 0.
C15_ExitStatus ==
    (script \in MainScripts /\ exit_status # -1)
        => (exit_status = 0 <=> history[1].ok)


\* a table with rows whose column names hold at least 2 patient indicators
PatientLike(t) ==
    /\ t.rows # <<>>
    /\ Cardinality({ind \in { <<"n", "a", "m", "e">>, <<"p", "a", "t", "i", "e", "n", "t">>, <<"c", "l", "i", "e", "n", "t">>, <<"f", "i", "r", "s", "t">>, <<"l", "a", "s", "t">>, <<"p", "h", "o", "n", "e">>,
                              <<"c", "o", "n", "t", "a", "c", "t">> } :
                        \E c \in 1..Len(t.columns) : Contains(Lower(t.columns[c]), ind)}) >= 2

\* C21: when the legacy database holds at least one table with rows whose
\* columns match 2 or more patient indicators, the DataFrame that
\* extract_real_access_data returns is such a table, one with the most
\* records among them, and not the hard-coded list of
\* extract_from_file_analysis.
C21_PrimaryTableSelection ==
    (/\ script = "real-access-extractor" /\ source = "ok" /\ exit_status # -1
     /\ \E i \in 1..Len(tables) : PatientLike(tables[i])) =>
        \E i \in 1..Len(tables) :
            /\ PatientLike(tables[i])
            /\ df = tables[i]
            /\ \A j \in 1..Len(tables) :
                   PatientLike(tables[j]) => Len(tables[j].rows) <= Len(tables[i].rows)
=============================================================================
